---- MODULE Spec2Model ----
(***************************************************************************)
(* A model of the Artifactory Terraform provider's backup, replication and *)
(* webhook resources: each lifecycle function (create, read, update,       *)
(* delete) is one action that unpacks the resource data, talks to the      *)
(* remote and packs the answer back into the resource data.  Where two     *)
(* backup functions run at once, a step is one remote call of a function.  *)
(***************************************************************************)
EXTENDS Integers, Sequences, FiniteSets, TLC

VARIABLES
    sysConfig,     \* remote: the "backups" section of system/configuration, key -> wire backup
    dBackup,       \* the backup resource's schema.ResourceData: [id, attrs]
    replRemote,    \* remote: what artifactory/api/replications/<repo> holds, repo -> document
    dSingle,       \* the single replication resource's ResourceData
    dPlural,       \* the plural replication resource's ResourceData
    webhooks,      \* remote: the stored webhooks, key -> webhook
    dWebhook,      \* the webhook resource's ResourceData
    opName,        \* the lifecycle function that ran last
    preState,      \* the ResourceData the last function started from (for a
                   \* create or an update: the configuration)
    preRemote,     \* the remote the last function started from
    faults,        \* the outcome drawn for each remote call of the last function
    calls,         \* the requests the last function sent, in order
    diags,         \* the diagnostics the last function returned (<<>>: none)
    panicked,      \* whether the last function crashed instead of returning
    deleteProc,    \* a backup delete under way beside another function: its
                   \* position, its ResourceData, what its GET returned, its diagnostics
    updateProc,    \* a backup create or update under way beside the delete
    dNpm           \* the remote npm repository resource's override list of
                   \* mismatching mime types: as configured, and as the state keeps it

vars == <<sysConfig, dBackup, replRemote, dSingle, dPlural, webhooks, dWebhook,
          opName, preState, preRemote, faults, calls, diags, panicked,
          deleteProc, updateProc, dNpm>>

backupVars == <<sysConfig, dBackup>>
replVars == <<replRemote, dSingle, dPlural>>
webhookVars == <<webhooks, dWebhook>>
procVars == <<deleteProc, updateProc>>
npmVars == <<dNpm>>

(***************************************************************************)
(* Bounds of the model.                                                    *)
(***************************************************************************)
NumBackupKeys == 2

\* the longest array of replications a repository or a configuration holds
MaxReplications == 2

NumWebhookKeys == 2

WebhookKeyNames == <<"webhook-1", "webhook-2", "webhook-3", "webhook-4">>

WebhookKeys == {WebhookKeyNames[i] : i \in 1..NumWebhookKeys}

KeyNames == <<"backup-1", "backup-2", "backup-3", "backup-4">>

BackupKeys == {KeyNames[i] : i \in 1..NumBackupKeys}

(***************************************************************************)
(* The transport client.  A call ends in a response and an error: the      *)
(* error is set on a transport failure (no status) and on an error status  *)
(* (the reads test err # nil together with resp.StatusCode()).             *)
(***************************************************************************)
StatusBadRequest == 400

StatusNotFound == 404

NoError == ""

TransportError == "dial tcp: connection refused"

CallOK == [err |-> NoError, status |-> 200]

CallTransportFailure == [err |-> TransportError, status |-> 0]

\* an error status: the client hands back the response and an error
CallStatus(s) == [err |-> "error response from the server", status |-> s]

CallServerError == CallStatus(500)

IsError(o) == o.status >= StatusBadRequest

Failed(o) == o.err # NoError

\* diag.FromErr: the error's own message, or no diagnostic for a nil error
FromErr(err) == IF err = NoError THEN <<>> ELSE <<err>>

NoBody == [clear |-> FALSE, backups |-> <<>>]

Request(method, path, body) == [method |-> method, path |-> path, body |-> body]

(***************************************************************************)
(* Backup: the Go struct, the schema attributes and the wire document.     *)
(***************************************************************************)
DefaultRetentionPeriodHours == 168

\* Backup{}: the zero value findBackup returns when no key matches
ZeroBackup ==
    [Key |-> "", CronExp |-> "", Enabled |-> FALSE, RetentionPeriodHours |-> 0,
     ExcludedRepositories |-> <<>>, CreateArchive |-> FALSE,
     ExcludeNewRepositories |-> FALSE, SendMailOnError |-> FALSE]

\* a configuration that leaves every optional attribute at the schema's default
BackupConfigDefault(k) ==
    [key |-> k, enabled |-> TRUE, cron_exp |-> "0 0 12 * * ?",
     retention_period_hours |-> DefaultRetentionPeriodHours,
     excluded_repositories |-> <<>>, create_archive |-> FALSE,
     exclude_new_repositories |-> FALSE, send_mail_on_error |-> TRUE]

\* a configuration that sets every optional attribute away from its default
BackupConfigCustom(k) ==
    [key |-> k, enabled |-> FALSE, cron_exp |-> "0 0 2 ? * MON",
     retention_period_hours |-> 24,
     excluded_repositories |-> <<"repo-a", "repo-b">>, create_archive |-> TRUE,
     exclude_new_repositories |-> TRUE, send_mail_on_error |-> FALSE]

BackupConfigs == {BackupConfigDefault(k) : k \in BackupKeys}
                     \cup {BackupConfigCustom(k) : k \in BackupKeys}

\* a mutant of unpackBackup: the retention period is not read from the
\* configuration
unpackBackupDefaultRetention(attrs) ==
    [Key |-> attrs.key,
     Enabled |-> attrs.enabled,
     CronExp |-> attrs.cron_exp,
     RetentionPeriodHours |-> DefaultRetentionPeriodHours,
     CreateArchive |-> attrs.create_archive,
     ExcludeNewRepositories |-> attrs.exclude_new_repositories,
     SendMailOnError |-> attrs.send_mail_on_error,
     ExcludedRepositories |-> attrs.excluded_repositories]

unpackBackup(attrs) ==
    [Key |-> attrs.key,
     Enabled |-> attrs.enabled,
     CronExp |-> attrs.cron_exp,
     RetentionPeriodHours |-> attrs.retention_period_hours,
     CreateArchive |-> attrs.create_archive,
     ExcludeNewRepositories |-> attrs.exclude_new_repositories,
     SendMailOnError |-> attrs.send_mail_on_error,
     ExcludedRepositories |-> attrs.excluded_repositories]

\* yaml.Marshal of a Backup: the struct's yaml tags name the document's fields
MarshalBackup(b) ==
    [key |-> b.Key, cronExp |-> b.CronExp, enabled |-> b.Enabled,
     retentionPeriodHours |-> b.RetentionPeriodHours,
     excludedRepositories |-> b.ExcludedRepositories,
     createArchive |-> b.CreateArchive,
     excludeNewRepositories |-> b.ExcludeNewRepositories,
     sendMailOnError |-> b.SendMailOnError]

\* SetResult(&backups): the struct's xml tags pick the document's fields
DecodeBackup(w) ==
    [Key |-> w.key, CronExp |-> w.cronExp, Enabled |-> w.enabled,
     RetentionPeriodHours |-> w.retentionPeriodHours,
     ExcludedRepositories |-> w.excludedRepositories,
     CreateArchive |-> w.createArchive,
     ExcludeNewRepositories |-> w.excludeNewRepositories,
     SendMailOnError |-> w.sendMailOnError]

\* universalPack over the backup schema: every field of the struct is set on
\* the attribute of its name
PackBackup(b) ==
    [key |-> b.Key, enabled |-> b.Enabled, cron_exp |-> b.CronExp,
     retention_period_hours |-> b.RetentionPeriodHours,
     excluded_repositories |-> b.ExcludedRepositories,
     create_archive |-> b.CreateArchive,
     exclude_new_repositories |-> b.ExcludeNewRepositories,
     send_mail_on_error |-> b.SendMailOnError]

ZeroBackupAttrs == PackBackup(ZeroBackup)

WireBackups == {MarshalBackup(unpackBackup(c)) : c \in BackupConfigs}

\* the remote documents: each key present holds a backup of that key
SysConfigs ==
    UNION {{f \in [ks -> WireBackups] : \A k \in ks : f[k].key = k} :
              ks \in SUBSET BackupKeys}

RECURSIVE BackupArrFrom(_, _)
BackupArrFrom(cfg, i) ==
    IF i > Len(KeyNames) THEN <<>>
    ELSE IF KeyNames[i] \in DOMAIN cfg
         THEN <<DecodeBackup(cfg[KeyNames[i]])>> \o BackupArrFrom(cfg, i + 1)
         ELSE BackupArrFrom(cfg, i + 1)

\* Backups.BackupArr as the GET of system/configuration decodes it
BackupArr(cfg) == BackupArrFrom(cfg, 1)

RECURSIVE findBackupFrom(_, _, _)
findBackupFrom(arr, key, i) ==
    IF i > Len(arr) THEN ZeroBackup
    ELSE IF arr[i].Key = key THEN arr[i]
         ELSE findBackupFrom(arr, key, i + 1)

findBackup(arr, key) == findBackupFrom(arr, key, 1)

RECURSIVE filterBackupsFrom(_, _, _)
filterBackupsFrom(arr, key, i) ==
    IF i > Len(arr) THEN <<>>
    ELSE IF arr[i].Key # key
         THEN (arr[i].Key :> arr[i]) @@ filterBackupsFrom(arr, key, i + 1)
         ELSE filterBackupsFrom(arr, key, i + 1)

\* a mutant of filterBackups: no backup is left out of the map
filterBackupsKeepAll(arr, key) == filterBackupsFrom(arr, "", 1)

\* the map of the backups whose key is not `key` (a later entry of the array
\* overwrites an earlier one of the same key)
filterBackups(arr, key) == filterBackupsFrom(arr, key, 1)

MarshalBackupMap(m) == [k \in DOMAIN m |-> MarshalBackup(m[k])]

SysConfigPath == "artifactory/api/system/configuration"

\* clearAllBackupConfigs: "backups: ~"
ClearBody == [clear |-> TRUE, backups |-> <<>>]

BackupsBody(m) == [clear |-> FALSE, backups |-> MarshalBackupMap(m)]

\* the remote's PATCH of system/configuration: a null section is dropped, a
\* map is merged key by key
ApplyPatch(cfg, body) ==
    IF body.clear THEN <<>>
    ELSE [k \in DOMAIN cfg \cup DOMAIN body.backups |->
             IF k \in DOMAIN body.backups THEN body.backups[k] ELSE cfg[k]]

\* sendConfigurationPatch: one PATCH, the client's error returned as is
sendConfigurationPatch(cfg, body, o) ==
    [cfg |-> IF Failed(o) THEN cfg ELSE ApplyPatch(cfg, body),
     err |-> o.err,
     calls |-> <<Request("PATCH", SysConfigPath, body)>>]

BackupReadError ==
    "failed to retrieve data from API: /artifactory/api/system/configuration during Read"

BackupGetErrorResponse ==
    "got error response for API: /artifactory/api/system/configuration request during Read"

(***************************************************************************)
(* Backup: the lifecycle functions.  Each takes the ResourceData d, the    *)
(* remote document cfg and the outcome of each remote call it may make,    *)
(* and yields the ResourceData, the remote, the diagnostics and the        *)
(* requests it sent.                                                       *)
(***************************************************************************)
BackupCallOutcomes == {CallOK, CallTransportFailure, CallServerError}

resourceBackupRead(d, cfg, o) ==
    LET backup == unpackBackup(d.attrs)
        get == <<Request("GET", SysConfigPath, NoBody)>>
    IN  IF Failed(o)
        THEN [d |-> d, cfg |-> cfg, diags |-> <<BackupReadError>>, calls |-> get]
        ELSE LET matchedBackup == findBackup(BackupArr(cfg), backup.Key)
             IN  [d |-> [d EXCEPT !.attrs = PackBackup(matchedBackup)],
                  cfg |-> cfg, diags |-> <<>>, calls |-> get]

\* a mutant of resourceBackupUpdate: the PATCH carries every backup of the
\* remote beside the resource's own, each reset to the resource's fields
resourceBackupUpdateWholeSection(d, cfg, o1, o2) ==
    LET unpackedBackup == unpackBackup(d.attrs)
        constructBody == BackupsBody(
            [k \in DOMAIN cfg \cup {unpackedBackup.Key} |->
                [unpackedBackup EXCEPT !.Key = k]])
        sent == sendConfigurationPatch(cfg, constructBody, o1)
    IN  IF sent.err # NoError
        THEN [d |-> d, cfg |-> sent.cfg, diags |-> FromErr(sent.err),
              calls |-> sent.calls]
        ELSE LET read == resourceBackupRead([d EXCEPT !.id = unpackedBackup.Key],
                                            sent.cfg, o2)
             IN  [d |-> read.d, cfg |-> read.cfg, diags |-> read.diags,
                  calls |-> sent.calls \o read.calls]

\* a mutant of resourceBackupUpdate: the PATCH adds the resource's excluded
\* repositories to those the remote holds for the key
resourceBackupUpdateAppending(d, cfg, o1, o2) ==
    LET unpackedBackup == unpackBackup(d.attrs)
        held == findBackup(BackupArr(cfg), unpackedBackup.Key)
        appended == [unpackedBackup EXCEPT !.ExcludedRepositories =
                        held.ExcludedRepositories \o @]
        constructBody == BackupsBody(unpackedBackup.Key :> appended)
        sent == sendConfigurationPatch(cfg, constructBody, o1)
    IN  IF sent.err # NoError
        THEN [d |-> d, cfg |-> sent.cfg, diags |-> FromErr(sent.err),
              calls |-> sent.calls]
        ELSE LET read == resourceBackupRead([d EXCEPT !.id = unpackedBackup.Key],
                                            sent.cfg, o2)
             IN  [d |-> read.d, cfg |-> read.cfg, diags |-> read.diags,
                  calls |-> sent.calls \o read.calls]

resourceBackupUpdate(d, cfg, o1, o2) ==
    LET unpackedBackup == unpackBackup(d.attrs)
        constructBody == BackupsBody(unpackedBackup.Key :> unpackedBackup)
        sent == sendConfigurationPatch(cfg, constructBody, o1)
    IN  IF sent.err # NoError
        THEN [d |-> d, cfg |-> sent.cfg, diags |-> FromErr(sent.err),
              calls |-> sent.calls]
        ELSE LET read == resourceBackupRead([d EXCEPT !.id = unpackedBackup.Key],
                                            sent.cfg, o2)
             IN  [d |-> read.d, cfg |-> read.cfg, diags |-> read.diags,
                  calls |-> sent.calls \o read.calls]

\* a mutant of resourceBackupDelete: the section is cleared before the GET
resourceBackupDeleteClearFirst(d, cfg, o1, o2, o3) ==
    LET rsrcBackup == unpackBackup(d.attrs)
        get == <<Request("GET", SysConfigPath, NoBody)>>
        cleared == sendConfigurationPatch(cfg, ClearBody, o1)
    IN  IF cleared.err # NoError
        THEN [d |-> d, cfg |-> cleared.cfg, diags |-> FromErr(cleared.err),
              calls |-> cleared.calls]
        ELSE IF Failed(o2)
        THEN [d |-> d, cfg |-> cleared.cfg, diags |-> FromErr(o2.err),
              calls |-> cleared.calls \o get]
        ELSE LET restoreBackups == filterBackups(BackupArr(cleared.cfg), rsrcBackup.Key)
                 restored == sendConfigurationPatch(
                                 cleared.cfg, BackupsBody(restoreBackups), o3)
             IN  [d |-> d, cfg |-> restored.cfg, diags |-> FromErr(restored.err),
                  calls |-> cleared.calls \o get \o restored.calls]

\* a mutant of resourceBackupDelete: a failed GET is taken for a
\* configuration without backups
resourceBackupDeleteIgnoringFetch(d, cfg, o1, o2, o3) ==
    LET rsrcBackup == unpackBackup(d.attrs)
        get == <<Request("GET", SysConfigPath, NoBody)>>
        restoreBackups == IF Failed(o1) THEN <<>>
                          ELSE filterBackups(BackupArr(cfg), rsrcBackup.Key)
        cleared == sendConfigurationPatch(cfg, ClearBody, o2)
    IN  IF cleared.err # NoError
        THEN [d |-> d, cfg |-> cleared.cfg, diags |-> FromErr(cleared.err),
              calls |-> get \o cleared.calls]
        ELSE LET restored == sendConfigurationPatch(
                                 cleared.cfg, BackupsBody(restoreBackups), o3)
             IN  [d |-> d, cfg |-> restored.cfg, diags |-> FromErr(restored.err),
                  calls |-> get \o cleared.calls \o restored.calls]

resourceBackupDelete(d, cfg, o1, o2, o3) ==
    LET rsrcBackup == unpackBackup(d.attrs)
        get == <<Request("GET", SysConfigPath, NoBody)>>
    IN  IF Failed(o1)
        THEN [d |-> d, cfg |-> cfg, diags |-> FromErr(o1.err), calls |-> get]
        ELSE IF IsError(o1)
        THEN [d |-> d, cfg |-> cfg, diags |-> <<BackupGetErrorResponse>>,
              calls |-> get]
        ELSE LET restoreBackups == filterBackups(BackupArr(cfg), rsrcBackup.Key)
                 cleared == sendConfigurationPatch(cfg, ClearBody, o2)
             IN  IF cleared.err # NoError
                 THEN [d |-> d, cfg |-> cleared.cfg, diags |-> FromErr(cleared.err),
                       calls |-> get \o cleared.calls]
                 ELSE LET restored == sendConfigurationPatch(
                                          cleared.cfg, BackupsBody(restoreBackups), o3)
                      IN  [d |-> d, cfg |-> restored.cfg,
                           diags |-> FromErr(restored.err),
                           calls |-> get \o cleared.calls \o restored.calls]

NoResource(attrs) == [id |-> "", attrs |-> attrs]

\* no function is under way step by step
NoProc == [pc |-> "none"]

\* the outcomes of the calls a function got to make
Consumed(os, sent) == SubSeq(os, 1, Len(sent))

\* an outcome is drawn for a call that is made: the others stay at CallOK
NoneSpare(os, sent) == \A i \in (Len(sent) + 1)..Len(os) : os[i] = CallOK

\* what every backup action records and leaves alone
BackupDone(name, start, r, os) ==
    /\ opName' = name
    /\ preState' = start
    /\ preRemote' = sysConfig
    /\ sysConfig' = r.cfg
    /\ NoneSpare(os, r.calls)
    /\ faults' = Consumed(os, r.calls)
    /\ calls' = r.calls
    /\ diags' = r.diags
    /\ panicked' = FALSE
    /\ UNCHANGED <<replVars, webhookVars, procVars, npmVars>>

\* CreateContext: the resource is not in the state yet, d holds the configuration
BackupCreate ==
    /\ dBackup.id = ""
    /\ \E c \in BackupConfigs, o1, o2 \in BackupCallOutcomes :
        LET start == NoResource(c)
        IN  \E r \in {resourceBackupUpdate(start, sysConfig, o1, o2)} :
            /\ dBackup' = r.d
            /\ BackupDone("BackupCreate", start, r, <<o1, o2>>)

\* UpdateContext: d holds the new configuration of the same key (key is ForceNew)
BackupUpdate ==
    /\ dBackup.id # ""
    /\ \E c \in BackupConfigs, o1, o2 \in BackupCallOutcomes :
        /\ c.key = dBackup.attrs.key
        /\ LET start == [id |-> dBackup.id, attrs |-> c]
           IN  \E r \in {resourceBackupUpdate(start, sysConfig, o1, o2)} :
               /\ dBackup' = r.d
               /\ BackupDone("BackupUpdate", start, r, <<o1, o2>>)

\* ReadContext: the refresh of a resource of the state
BackupRead ==
    /\ dBackup.id # ""
    /\ \E o \in BackupCallOutcomes :
        \E r \in {resourceBackupRead(dBackup, sysConfig, o)} :
            /\ dBackup' = r.d
            /\ BackupDone("BackupRead", dBackup, r, <<o>>)

\* DeleteContext: the resource leaves the state when the function reports no error
BackupDelete ==
    /\ dBackup.id # ""
    /\ \E o1, o2, o3 \in BackupCallOutcomes :
        \E r \in {resourceBackupDelete(dBackup, sysConfig, o1, o2, o3)} :
            /\ dBackup' = IF r.diags = <<>> THEN [r.d EXCEPT !.id = ""] ELSE r.d
            /\ BackupDone("BackupDelete", dBackup, r, <<o1, o2, o3>>)

\* somebody else edits the remote: a backup is removed or written
BackupOutOfBand ==
    /\ \E k \in BackupKeys, w \in WireBackups \cup {ClearBody} :
        /\ IF w = ClearBody THEN k \in DOMAIN sysConfig ELSE w.key = k
        /\ LET cfg == IF w = ClearBody
                      THEN [j \in DOMAIN sysConfig \ {k} |-> sysConfig[j]]
                      ELSE ApplyPatch(sysConfig, [clear |-> FALSE, backups |-> (k :> w)])
           IN  /\ cfg # sysConfig
               /\ UNCHANGED dBackup
               /\ BackupDone("BackupOutOfBand", dBackup,
                             [cfg |-> cfg, calls |-> <<>>, diags |-> <<>>], <<>>)

NoState == NoResource(<<>>)

BackupNext ==
    \/ BackupCreate
    \/ BackupUpdate
    \/ BackupRead
    \/ BackupDelete
    \/ BackupOutOfBand

(***************************************************************************)
(* Backup: a delete and a create or update of another backup under way at  *)
(* once, as the plugin framework runs independent resources.  A step is    *)
(* one remote call of the function with the code that follows it up to     *)
(* the next call.                                                          *)
(***************************************************************************)
StepDone(name, o, sent) ==
    /\ opName' = name
    /\ faults' = Append(faults, o)
    /\ calls' = calls \o sent
    /\ UNCHANGED <<dBackup, preState, preRemote, diags, panicked,
                   replVars, webhookVars, npmVars>>

ReturnedWith(proc, ds) == [proc EXCEPT !.pc = "returned", !.diags = ds]

\* resourceBackupDelete up to the clearing PATCH: the GET, its checks and
\* filterBackups
DeleteGet ==
    /\ deleteProc.pc = "get"
    /\ \E o \in BackupCallOutcomes :
        /\ deleteProc' =
               IF Failed(o) THEN ReturnedWith(deleteProc, FromErr(o.err))
               ELSE IF IsError(o)
               THEN ReturnedWith(deleteProc, <<BackupGetErrorResponse>>)
               ELSE [deleteProc EXCEPT
                        !.pc = "clear",
                        !.restoreBackups =
                            filterBackups(BackupArr(sysConfig),
                                          unpackBackup(deleteProc.d.attrs).Key)]
        /\ UNCHANGED <<sysConfig, updateProc>>
        /\ StepDone("DeleteGet", o, <<Request("GET", SysConfigPath, NoBody)>>)

\* the PATCH of clearAllBackupConfigs
DeleteClear ==
    /\ deleteProc.pc = "clear"
    /\ \E o \in BackupCallOutcomes :
        \E sent \in {sendConfigurationPatch(sysConfig, ClearBody, o)} :
            /\ sysConfig' = sent.cfg
            /\ deleteProc' = IF sent.err # NoError
                             THEN ReturnedWith(deleteProc, FromErr(sent.err))
                             ELSE [deleteProc EXCEPT !.pc = "restore"]
            /\ UNCHANGED updateProc
            /\ StepDone("DeleteClear", o, sent.calls)

\* the PATCH of restoreBackups
DeleteRestore ==
    /\ deleteProc.pc = "restore"
    /\ \E o \in BackupCallOutcomes :
        \E sent \in {sendConfigurationPatch(
                         sysConfig, BackupsBody(deleteProc.restoreBackups), o)} :
            /\ sysConfig' = sent.cfg
            /\ deleteProc' = ReturnedWith(deleteProc, FromErr(sent.err))
            /\ UNCHANGED updateProc
            /\ StepDone("DeleteRestore", o, sent.calls)

\* resourceBackupUpdate up to the read: the PATCH of constructBody and SetId
UpdatePatch ==
    /\ updateProc.pc = "patch"
    /\ \E o \in BackupCallOutcomes :
        LET unpackedBackup == unpackBackup(updateProc.d.attrs)
            constructBody == BackupsBody(unpackedBackup.Key :> unpackedBackup)
        IN  \E sent \in {sendConfigurationPatch(sysConfig, constructBody, o)} :
            /\ sysConfig' = sent.cfg
            /\ updateProc' = IF sent.err # NoError
                             THEN ReturnedWith(updateProc, FromErr(sent.err))
                             ELSE [updateProc EXCEPT !.pc = "read",
                                                     !.d.id = unpackedBackup.Key]
            /\ UNCHANGED deleteProc
            /\ StepDone("UpdatePatch", o, sent.calls)

\* the resourceBackupRead that ends resourceBackupUpdate
UpdateRead ==
    /\ updateProc.pc = "read"
    /\ \E o \in BackupCallOutcomes :
        \E r \in {resourceBackupRead(updateProc.d, sysConfig, o)} :
            /\ updateProc' = [ReturnedWith(updateProc, r.diags) EXCEPT !.d = r.d]
            /\ UNCHANGED <<sysConfig, deleteProc>>
            /\ StepDone("UpdateRead", o, r.calls)

ConcurrentBackupsNext ==
    \/ DeleteGet
    \/ DeleteClear
    \/ DeleteRestore
    \/ UpdatePatch
    \/ UpdateRead

(***************************************************************************)
(* Replication: the structs, the schema attributes and the JSON documents. *)
(***************************************************************************)
replicationEndpoint == "artifactory/api/replications/"

multipleEndpoint == "artifactory/api/replications/multiple/"

bareEndpoint == "/api/replications/"

\* a local repository replicates by push (the GET answers an array), a remote
\* one by pull (the GET answers one object)
ReplRepos == {"libs-local", "libs-remote"}

IsPullRepo(repo) == repo = "libs-remote"

\* the schema attributes of one replication: replicationSchema
ReplAttrsA ==
    [url |-> "http://a.example.org/artifactory/libs", socket_timeout_millis |-> 15000,
     username |-> "alice", password |-> "secret-a", enabled |-> TRUE,
     sync_deletes |-> FALSE, sync_properties |-> TRUE, sync_statistics |-> FALSE,
     path_prefix |-> "a/", proxy |-> "proxy-a"]

ReplAttrsB ==
    [url |-> "https://b.example.org/artifactory/libs", socket_timeout_millis |-> 0,
     username |-> "bob", password |-> "secret-b", enabled |-> FALSE,
     sync_deletes |-> TRUE, sync_properties |-> FALSE, sync_statistics |-> TRUE,
     path_prefix |-> "", proxy |-> ""]

\* replicationSchemaCommon
ReplCommonA(repo) ==
    [repo_key |-> repo, cron_exp |-> "0 0 * * * ?", enable_event_replication |-> TRUE]

ReplCommonB(repo) ==
    [repo_key |-> repo, cron_exp |-> "0 30 2 * * ?", enable_event_replication |-> FALSE]

\* mergeSchema: the attributes of both maps
mergeSchema(a, b) == a @@ b

\* the configurations of the single replication resource
SingleConfigs ==
    {mergeSchema(ReplCommonA(r), ReplAttrsA) : r \in ReplRepos}
        \cup {mergeSchema(ReplCommonB(r), ReplAttrsB) : r \in ReplRepos}

ZeroSingleAttrs ==
    [repo_key |-> "", cron_exp |-> "", enable_event_replication |-> FALSE,
     url |-> "", socket_timeout_millis |-> 0, username |-> "", password |-> "",
     enabled |-> FALSE, sync_deletes |-> FALSE, sync_properties |-> FALSE,
     sync_statistics |-> FALSE, path_prefix |-> "", proxy |-> ""]

\* d.getString(key) read back, unless the value was reset
handleResetWithNonExistantValue(attrs, key) == attrs[key]

unpackSingleReplicationConfig(attrs) ==
    [RepoKey |-> attrs.repo_key,
     CronExp |-> attrs.cron_exp,
     EnableEventReplication |-> attrs.enable_event_replication,
     URL |-> attrs.url,
     SocketTimeoutMillis |-> attrs.socket_timeout_millis,
     Username |-> attrs.username,
     Enabled |-> attrs.enabled,
     SyncDeletes |-> attrs.sync_deletes,
     SyncProperties |-> attrs.sync_properties,
     SyncStatistics |-> attrs.sync_statistics,
     PathPrefix |-> attrs.path_prefix,
     Proxy |-> handleResetWithNonExistantValue(attrs, "proxy"),
     Password |-> attrs.password]

\* the JSON of an updateReplicationBody
MarshalUpdateBody(b) ==
    [repoKey |-> b.RepoKey, cronExp |-> b.CronExp,
     enableEventReplication |-> b.EnableEventReplication, url |-> b.URL,
     socketTimeoutMillis |-> b.SocketTimeoutMillis, username |-> b.Username,
     password |-> b.Password, enabled |-> b.Enabled, syncDeletes |-> b.SyncDeletes,
     syncProperties |-> b.SyncProperties, syncStatistics |-> b.SyncStatistics,
     pathPrefix |-> b.PathPrefix, proxy |-> b.Proxy]

\* the remote hands a password back scrambled
Scramble(p) ==
    CASE p = "secret-a" -> "JE2fNsEThvb1buiH7h7S2RDsGWSdp2Ec-a"
      [] p = "secret-b" -> "JE2fNsEThvb1buiH7h7S2RDsGWSdp2Ec-b"
      [] OTHER -> p

\* what the remote keeps of a replication it is sent, as its GET shows it
StoredBody(w) ==
    [repoKey |-> w.repoKey, cronExp |-> w.cronExp,
     enableEventReplication |-> w.enableEventReplication, url |-> w.url,
     socketTimeoutMillis |-> w.socketTimeoutMillis, username |-> w.username,
     password |-> Scramble(w.password), enabled |-> w.enabled,
     syncDeletes |-> w.syncDeletes, syncProperties |-> w.syncProperties,
     syncStatistics |-> w.syncStatistics, pathPrefix |-> w.pathPrefix,
     proxyRef |-> w.proxy]

\* json.Unmarshal into a getReplicationBody
DecodeGetBody(w) ==
    [RepoKey |-> w.repoKey, CronExp |-> w.cronExp,
     EnableEventReplication |-> w.enableEventReplication, URL |-> w.url,
     SocketTimeoutMillis |-> w.socketTimeoutMillis, Username |-> w.username,
     Password |-> w.password, Enabled |-> w.enabled, SyncDeletes |-> w.syncDeletes,
     SyncProperties |-> w.syncProperties, SyncStatistics |-> w.syncStatistics,
     PathPrefix |-> w.pathPrefix, ProxyRef |-> w.proxyRef]

\* json.Unmarshal into a PullReplication
DecodePullBody(w) ==
    [RepoKey |-> w.repoKey, CronExp |-> w.cronExp,
     EnableEventReplication |-> w.enableEventReplication, Enabled |-> w.enabled,
     SyncDeletes |-> w.syncDeletes, SyncProperties |-> w.syncProperties,
     PathPrefix |-> w.pathPrefix]

packPushReplicationBody(config, attrs) ==
    [repo_key |-> config.RepoKey,
     cron_exp |-> config.CronExp,
     enable_event_replication |-> config.EnableEventReplication,
     url |-> config.URL,
     socket_timeout_millis |-> config.SocketTimeoutMillis,
     username |-> config.Username,
     password |-> config.Password,
     enabled |-> config.Enabled,
     sync_deletes |-> config.SyncDeletes,
     sync_properties |-> config.SyncProperties,
     sync_statistics |-> config.SyncStatistics,
     path_prefix |-> config.PathPrefix,
     proxy |-> config.ProxyRef]

\* the pull shape carries no url, credentials, timeout, statistics flag or
\* proxy: those attributes keep what d held
packPullReplicationBody(config, attrs) ==
    [attrs EXCEPT !.repo_key = config.RepoKey,
                  !.cron_exp = config.CronExp,
                  !.enable_event_replication = config.EnableEventReplication,
                  !.enabled = config.Enabled,
                  !.sync_deletes = config.SyncDeletes,
                  !.sync_properties = config.SyncProperties,
                  !.path_prefix = config.PathPrefix]

\* the documents the remote can hold for a repository: nothing, an array of
\* replications, one replication object, or another JSON value
AbsentDoc == [kind |-> "absent", items |-> <<>>]

ArrayDoc(items) == [kind |-> "array", items |-> items]

ObjectDoc(w) == [kind |-> "object", items |-> <<w>>]

ScalarDoc == [kind |-> "scalar", items |-> <<>>]

StoredA(repo) == StoredBody(MarshalUpdateBody(
                     unpackSingleReplicationConfig(mergeSchema(ReplCommonA(repo), ReplAttrsA))))

StoredB(repo) == StoredBody(MarshalUpdateBody(
                     unpackSingleReplicationConfig(mergeSchema(ReplCommonB(repo), ReplAttrsB))))

\* the arrays of at most MaxReplications replications, A and B in turn, and
\* the array of B alone
AlternatingFrom(repo, n, first) ==
    [i \in 1..n |-> IF (i % 2 = 1) = first THEN StoredA(repo) ELSE StoredB(repo)]

ReplArrays(repo) ==
    {AlternatingFrom(repo, n, TRUE) : n \in 0..MaxReplications}
        \cup {AlternatingFrom(repo, 1, FALSE)}

ReplDocs(repo) ==
    {AbsentDoc, ScalarDoc, ObjectDoc(StoredB(repo))}
        \cup {ArrayDoc(items) : items \in ReplArrays(repo)}

(***************************************************************************)
(* Replication: the remote, and the single replication resource.           *)
(***************************************************************************)
\* a write fails on its own at the transport; a GET also with a bad request
\* (not found is the remote's answer for a repository without replications)
ReplCallOutcomes == {CallOK, CallTransportFailure}

ReplGetOutcomes == ReplCallOutcomes \cup {CallStatus(StatusBadRequest)}

DocAt(remote, key) == IF key \in DOMAIN remote THEN remote[key] ELSE AbsentDoc

\* the answer to a GET of a repository's replications: not found when the
\* remote holds none, unless the call fails on its own
GetAnswer(remote, key, o) ==
    IF Failed(o) THEN o
    ELSE IF DocAt(remote, key).kind = "absent" THEN CallStatus(StatusNotFound)
    ELSE CallOK

\* the remote serves the replications under artifactory/api/; whether
\* "/api/replications/" reaches it is up to what stands in front of the
\* remote: the POST of the path is answered not found when it does not
Served(endpoint) == endpoint \in {replicationEndpoint, multipleEndpoint, bareEndpoint}

ReplPostOutcomes == ReplCallOutcomes \cup {CallStatus(StatusNotFound)}

\* the answer to a PUT, POST or DELETE: not found for a path the remote does
\* not serve and for a repository it does not have
WriteAnswer(remote, endpoint, key, o) ==
    IF Failed(o) THEN o
    ELSE IF ~Served(endpoint) \/ key \notin DOMAIN remote THEN CallStatus(StatusNotFound)
    ELSE CallOK

\* the remote after a write of one replication that it answered with `a`
StoreSingle(remote, key, w, a) ==
    IF Failed(a) THEN remote
    ELSE [remote EXCEPT ![key] = IF IsPullRepo(key) THEN ObjectDoc(StoredBody(w))
                                 ELSE ArrayDoc(<<StoredBody(w)>>)]

MultipleReplicationsError ==
    "resource_single_replication_config does not support multiple replication config on a repo. Use resource_artifactory_replication_config instead"

UnmarshalError == "json: cannot unmarshal value into Go value"

Returned(d, remote, ds, sent) ==
    [d |-> d, remote |-> remote, diags |-> ds, calls |-> sent, panic |-> FALSE]

\* an index out of range: the function does not return
Panicked(d, remote, sent) ==
    [d |-> d, remote |-> remote, diags |-> <<>>, calls |-> sent, panic |-> TRUE]

\* a mutant of decodeSingleReplication: the length of the array is not looked at
decodeSingleReplicationAnyLength(d, remote, result, get) ==
    IF result.kind = "array"
    THEN IF Len(result.items) = 0
         THEN Panicked(d, remote, get)
         ELSE Returned([d EXCEPT !.attrs = packPushReplicationBody(
                                     DecodeGetBody(result.items[1]), d.attrs)],
                       remote, <<>>, get)
    ELSE IF result.kind = "object"
         THEN Returned([d EXCEPT !.attrs = packPullReplicationBody(
                                     DecodePullBody(result.items[1]), d.attrs)],
                       remote, <<>>, get)
         ELSE Returned(d, remote, <<UnmarshalError>>, get)

\* the type switch on the decoded result: an array of more than one element
\* is refused, final[0] of an array is packed as a push replication (there
\* is no final[0] in an empty array), anything else is decoded as a pull
\* replication
decodeSingleReplication(d, remote, result, get) ==
    IF result.kind = "array"
    THEN IF Len(result.items) > 1
         THEN Returned(d, remote, <<MultipleReplicationsError>>, get)
         ELSE IF Len(result.items) = 0
         THEN Panicked(d, remote, get)
         ELSE Returned([d EXCEPT !.attrs = packPushReplicationBody(
                                     DecodeGetBody(result.items[1]), d.attrs)],
                       remote, <<>>, get)
    ELSE IF result.kind = "object"
         THEN Returned([d EXCEPT !.attrs = packPullReplicationBody(
                                     DecodePullBody(result.items[1]), d.attrs)],
                       remote, <<>>, get)
         ELSE Returned(d, remote, <<UnmarshalError>>, get)

resourceSingleReplicationConfigRead(d, remote, o) ==
    LET resp == GetAnswer(remote, d.id, o)
        get == <<Request("GET", <<replicationEndpoint, d.id>>, NoBody)>>
    IN  IF Failed(resp)
        THEN IF resp.status = StatusBadRequest \/ resp.status = StatusNotFound
             THEN Returned([d EXCEPT !.id = ""], remote, <<>>, get)
             ELSE Returned(d, remote, FromErr(resp.err), get)
        ELSE decodeSingleReplication(d, remote, DocAt(remote, d.id), get)

\* a mutant of SingleWrite: the ID is set before the write's error is looked at
SingleWriteIdFirst(method, d, remote, o1, o2) ==
    LET replicationConfig == unpackSingleReplicationConfig(d.attrs)
        body == MarshalUpdateBody(replicationConfig)
        put == <<Request(method, <<replicationEndpoint, replicationConfig.RepoKey>>, body)>>
        resp == WriteAnswer(remote, replicationEndpoint, replicationConfig.RepoKey, o1)
        stored == StoreSingle(remote, replicationConfig.RepoKey, body, resp)
        recorded == [d EXCEPT !.id = replicationConfig.RepoKey]
    IN  IF Failed(resp)
        THEN Returned(recorded, stored, FromErr(resp.err), put)
        ELSE LET read == resourceSingleReplicationConfigRead(recorded, stored, o2)
             IN  [read EXCEPT !.calls = put \o read.calls]

\* create and update differ in the verb alone
SingleWrite(method, d, remote, o1, o2) ==
    LET replicationConfig == unpackSingleReplicationConfig(d.attrs)
        body == MarshalUpdateBody(replicationConfig)
        put == <<Request(method, <<replicationEndpoint, replicationConfig.RepoKey>>, body)>>
        resp == WriteAnswer(remote, replicationEndpoint, replicationConfig.RepoKey, o1)
        stored == StoreSingle(remote, replicationConfig.RepoKey, body, resp)
    IN  IF Failed(resp)
        THEN Returned(d, stored, FromErr(resp.err), put)
        ELSE LET read == resourceSingleReplicationConfigRead(
                             [d EXCEPT !.id = replicationConfig.RepoKey], stored, o2)
             IN  [read EXCEPT !.calls = put \o read.calls]

resourceSingleReplicationConfigCreate(d, remote, o1, o2) ==
    SingleWrite("PUT", d, remote, o1, o2)

resourceSingleReplicationConfigUpdate(d, remote, o1, o2) ==
    SingleWrite("POST", d, remote, o1, o2)

\* resourceReplicationDelete: one DELETE, the client's error returned as is
resourceReplicationDelete(d, remote, o) ==
    LET resp == WriteAnswer(remote, replicationEndpoint, d.id, o)
        del == <<Request("DELETE", <<replicationEndpoint, d.id>>, NoBody)>>
    IN  Returned(d, IF Failed(resp) THEN remote ELSE [remote EXCEPT ![d.id] = AbsentDoc],
                 FromErr(resp.err), del)

\* what every replication action records
ReplDone(name, start, r, os) ==
    /\ opName' = name
    /\ preState' = start
    /\ preRemote' = replRemote
    /\ replRemote' = r.remote
    /\ NoneSpare(os, r.calls)
    /\ faults' = Consumed(os, r.calls)
    /\ calls' = r.calls
    /\ diags' = r.diags
    /\ panicked' = r.panic
    /\ UNCHANGED <<backupVars, webhookVars, procVars, npmVars>>

SingleCreate ==
    /\ dSingle.id = ""
    /\ \E c \in SingleConfigs, o1 \in ReplCallOutcomes, o2 \in ReplGetOutcomes :
        LET start == NoResource(c)
        IN  \E r \in {resourceSingleReplicationConfigCreate(start, replRemote, o1, o2)} :
            /\ dSingle' = r.d
            /\ ReplDone("SingleCreate", start, r, <<o1, o2>>)

\* the new configuration keeps what the state holds of the attributes it
\* cannot set back (none here: every attribute is configured)
SingleUpdate ==
    /\ dSingle.id # ""
    /\ \E c \in SingleConfigs, o1 \in ReplCallOutcomes, o2 \in ReplGetOutcomes :
        LET start == [id |-> dSingle.id, attrs |-> c]
        IN  \E r \in {resourceSingleReplicationConfigUpdate(start, replRemote, o1, o2)} :
            /\ dSingle' = r.d
            /\ ReplDone("SingleUpdate", start, r, <<o1, o2>>)

SingleRead ==
    /\ dSingle.id # ""
    /\ \E o \in ReplGetOutcomes :
        \E r \in {resourceSingleReplicationConfigRead(dSingle, replRemote, o)} :
            /\ dSingle' = r.d
            /\ ReplDone("SingleRead", dSingle, r, <<o>>)

SingleDelete ==
    /\ dSingle.id # ""
    /\ \E o \in ReplCallOutcomes :
        \E r \in {resourceReplicationDelete(dSingle, replRemote, o)} :
            /\ dSingle' = IF r.diags = <<>> THEN [r.d EXCEPT !.id = ""] ELSE r.d
            /\ ReplDone("SingleDelete", dSingle, r, <<o>>)

\* somebody else rewrites what the remote holds for the resource's repository
ReplOutOfBand(d) ==
    /\ d.id \in ReplRepos
    /\ \E doc \in ReplDocs(d.id) :
        /\ doc # replRemote[d.id]
        /\ replRemote' = [replRemote EXCEPT ![d.id] = doc]
        /\ opName' = "ReplOutOfBand"
        /\ preState' = d
        /\ preRemote' = replRemote'
        /\ faults' = <<>>
        /\ calls' = <<>>
        /\ diags' = <<>>
        /\ panicked' = FALSE
        /\ UNCHANGED <<backupVars, webhookVars, procVars, npmVars>>

SingleOutOfBand ==
    /\ ReplOutOfBand(dSingle)
    /\ UNCHANGED <<dSingle, dPlural>>

\* the remotes a run starts from: at most one repository holds a document
\* (the actions write to the others)
ReplRemotes ==
    UNION {{[r \in ReplRepos |-> IF r = repo THEN doc ELSE AbsentDoc] :
               doc \in ReplDocs(repo)} : repo \in ReplRepos}

SingleNext ==
    \/ SingleCreate /\ UNCHANGED dPlural
    \/ SingleUpdate /\ UNCHANGED dPlural
    \/ SingleRead /\ UNCHANGED dPlural
    \/ SingleDelete /\ UNCHANGED dPlural
    \/ SingleOutOfBand

(***************************************************************************)
(* Replication: the plural replication resource.                           *)
(***************************************************************************)
ReplAttrsList(n, first) ==
    [i \in 1..n |-> IF (i % 2 = 1) = first THEN ReplAttrsA ELSE ReplAttrsB]

\* the configurations of the plural resource: the common attributes and a
\* list of at most MaxReplications replications (none: the list is left out)
PluralConfigs ==
    {ReplCommonA(r) @@ [replications |-> ReplAttrsList(n, TRUE)] :
        r \in ReplRepos, n \in 0..MaxReplications}
    \cup {ReplCommonB(r) @@ [replications |-> ReplAttrsList(1, FALSE)] :
        r \in ReplRepos}

ZeroPluralAttrs ==
    [repo_key |-> "", cron_exp |-> "", enable_event_replication |-> FALSE,
     replications |-> <<>>]

\* new(UpdateReplicationConfig)
ZeroUpdateReplicationConfig ==
    [RepoKey |-> "", CronExp |-> "", EnableEventReplication |-> FALSE,
     Replications |-> <<>>]

\* one element of the loop over "replications": the body's own CronExp and
\* EnableEventReplication are never set
unpackReplication(attrs, i) ==
    LET m == attrs.replications[i]
    IN  [RepoKey |-> attrs.repo_key, CronExp |-> "", EnableEventReplication |-> FALSE,
         URL |-> m.url, SocketTimeoutMillis |-> m.socket_timeout_millis,
         Username |-> m.username, Enabled |-> m.enabled,
         SyncDeletes |-> m.sync_deletes, SyncProperties |-> m.sync_properties,
         SyncStatistics |-> m.sync_statistics, PathPrefix |-> m.path_prefix,
         Proxy |-> handleResetWithNonExistantValue(m, "proxy"),
         Password |-> m.password]

\* the common fields are set in the loop's first round, so only when the
\* list has an element
unpackReplicationConfig(attrs) ==
    IF Len(attrs.replications) = 0 THEN ZeroUpdateReplicationConfig
    ELSE [RepoKey |-> attrs.repo_key,
          CronExp |-> attrs.cron_exp,
          EnableEventReplication |-> attrs.enable_event_replication,
          Replications |-> [i \in 1..Len(attrs.replications) |->
                               unpackReplication(attrs, i)]]

\* the JSON of an UpdateReplicationConfig: RepoKey is not part of it
MarshalUpdateConfig(c) ==
    [cronExp |-> c.CronExp, enableEventReplication |-> c.EnableEventReplication,
     replications |-> [i \in 1..Len(c.Replications) |->
                          MarshalUpdateBody(c.Replications[i])]]

\* the remote after a write of a list of replications that it answered with
\* `a`: each replication gets the list's schedule
StoreMultiple(remote, key, w, a) ==
    IF Failed(a) THEN remote
    ELSE [remote EXCEPT ![key] = ArrayDoc(
             [i \in 1..Len(w.replications) |->
                 StoredBody([w.replications[i] EXCEPT
                     !.repoKey = key,
                     !.cronExp = w.cronExp,
                     !.enableEventReplication = w.enableEventReplication])])]

\* the remote keeps a list of push replications for a local repository alone
MultipleAnswer(remote, endpoint, key, o) ==
    LET a == WriteAnswer(remote, endpoint, key, o)
    IN  IF ~Failed(a) /\ IsPullRepo(key) THEN CallStatus(StatusBadRequest) ELSE a

getMD5Hash(p) ==
    CASE p = Scramble("secret-a") -> "5f4dcc3b5aa765d61d8327deb882cf9a"
      [] p = Scramble("secret-b") -> "7c6a180b36896a0a8c02787eeafb0e4b"
      [] p = "" -> "d41d8cd98f00b204e9800998ecf8427e"
      [] OTHER -> "0cc175b9c0f1b6a831c399e269772661"

\* a mutant of packReplication: the password is stored as the remote
\* returned it
packReplicationPasswordAsReturned(repo) ==
    [url |-> repo.URL,
     socket_timeout_millis |-> repo.SocketTimeoutMillis,
     username |-> repo.Username,
     password |-> repo.Password,
     enabled |-> repo.Enabled,
     sync_deletes |-> repo.SyncDeletes,
     sync_properties |-> repo.SyncProperties,
     sync_statistics |-> repo.SyncStatistics,
     path_prefix |-> repo.PathPrefix,
     proxy |-> repo.ProxyRef]

packReplication(repo) ==
    [url |-> repo.URL,
     socket_timeout_millis |-> repo.SocketTimeoutMillis,
     username |-> repo.Username,
     password |-> getMD5Hash(repo.Password),
     enabled |-> repo.Enabled,
     sync_deletes |-> repo.SyncDeletes,
     sync_properties |-> repo.SyncProperties,
     sync_statistics |-> repo.SyncStatistics,
     path_prefix |-> repo.PathPrefix,
     proxy |-> repo.ProxyRef]

\* a mutant of packReplicationConfig: "replications" is left as it was when
\* the config has no replication
packReplicationConfigSkippingEmpty(replicationConfig, attrs) ==
    [repo_key |-> replicationConfig.RepoKey,
     cron_exp |-> replicationConfig.CronExp,
     enable_event_replication |-> replicationConfig.EnableEventReplication,
     replications |-> IF Len(replicationConfig.Replications) = 0
                      THEN attrs.replications
                      ELSE [i \in 1..Len(replicationConfig.Replications) |->
                               packReplication(replicationConfig.Replications[i])]]

\* Replications is not nil after a decoded array, so "replications" is set,
\* to an empty list for an empty array
packReplicationConfig(replicationConfig, attrs) ==
    [repo_key |-> replicationConfig.RepoKey,
     cron_exp |-> replicationConfig.CronExp,
     enable_event_replication |-> replicationConfig.EnableEventReplication,
     replications |-> [i \in 1..Len(replicationConfig.Replications) |->
                          packReplication(replicationConfig.Replications[i])]]

resourceReplicationConfigRead(d, remote, o) ==
    LET resp == GetAnswer(remote, d.id, o)
        result == DocAt(remote, d.id)
        get == <<Request("GET", <<replicationEndpoint, d.id>>, NoBody)>>
    IN  IF Failed(resp) THEN Returned(d, remote, FromErr(resp.err), get)
        ELSE IF result.kind # "array" THEN Returned(d, remote, <<UnmarshalError>>, get)
        ELSE LET replications == [i \in 1..Len(result.items) |->
                                     DecodeGetBody(result.items[i])]
                 repConfig ==
                     [RepoKey |-> d.id,
                      Replications |-> replications,
                      EnableEventReplication |->
                          IF Len(replications) > 0
                          THEN replications[1].EnableEventReplication ELSE FALSE,
                      CronExp |->
                          IF Len(replications) > 0 THEN replications[1].CronExp ELSE ""]
             IN  Returned([d EXCEPT !.attrs = packReplicationConfig(repConfig, d.attrs)],
                          remote, <<>>, get)

\* create and update differ in the verb and in the path
PluralWrite(method, endpoint, key, d, remote, o1, o2) ==
    LET replicationConfig == unpackReplicationConfig(d.attrs)
        body == MarshalUpdateConfig(replicationConfig)
        sent == <<Request(method, <<endpoint, key>>, body)>>
        resp == MultipleAnswer(remote, endpoint, key, o1)
        stored == StoreMultiple(remote, key, body, resp)
    IN  IF Failed(resp)
        THEN Returned(d, stored, FromErr(resp.err), sent)
        ELSE LET read == resourceReplicationConfigRead(
                             [d EXCEPT !.id = replicationConfig.RepoKey], stored, o2)
             IN  [read EXCEPT !.calls = sent \o read.calls]

resourceReplicationConfigCreate(d, remote, o1, o2) ==
    PluralWrite("PUT", multipleEndpoint, unpackReplicationConfig(d.attrs).RepoKey,
                d, remote, o1, o2)

resourceReplicationConfigUpdate(d, remote, o1, o2) ==
    PluralWrite("POST", bareEndpoint, d.id, d, remote, o1, o2)

PluralCreate ==
    /\ dPlural.id = ""
    /\ \E c \in PluralConfigs, o1 \in ReplCallOutcomes, o2 \in ReplGetOutcomes :
        LET start == NoResource(c)
        IN  \E r \in {resourceReplicationConfigCreate(start, replRemote, o1, o2)} :
            /\ dPlural' = r.d
            /\ ReplDone("PluralCreate", start, r, <<o1, o2>>)

PluralUpdate ==
    /\ dPlural.id # ""
    /\ \E c \in PluralConfigs, o1 \in ReplPostOutcomes, o2 \in ReplGetOutcomes :
        LET start == [id |-> dPlural.id, attrs |-> c]
        IN  \E r \in {resourceReplicationConfigUpdate(start, replRemote, o1, o2)} :
            /\ dPlural' = r.d
            /\ ReplDone("PluralUpdate", start, r, <<o1, o2>>)

PluralRead ==
    /\ dPlural.id # ""
    /\ \E o \in ReplGetOutcomes :
        \E r \in {resourceReplicationConfigRead(dPlural, replRemote, o)} :
            /\ dPlural' = r.d
            /\ ReplDone("PluralRead", dPlural, r, <<o>>)

PluralDelete ==
    /\ dPlural.id # ""
    /\ \E o \in ReplCallOutcomes :
        \E r \in {resourceReplicationDelete(dPlural, replRemote, o)} :
            /\ dPlural' = IF r.diags = <<>> THEN [r.d EXCEPT !.id = ""] ELSE r.d
            /\ ReplDone("PluralDelete", dPlural, r, <<o>>)

PluralOutOfBand ==
    /\ ReplOutOfBand(dPlural)
    /\ UNCHANGED <<dSingle, dPlural>>

PluralNext ==
    \/ PluralCreate /\ UNCHANGED dSingle
    \/ PluralUpdate /\ UNCHANGED dSingle
    \/ PluralRead /\ UNCHANGED dSingle
    \/ PluralDelete /\ UNCHANGED dSingle
    \/ PluralOutOfBand

(***************************************************************************)
(* The remote npm repository: the state function of                        *)
(* mismatching_mime_types_override_list.  A string is the sequence of its  *)
(* characters.                                                             *)
(***************************************************************************)
\* the longest override list configured
MaxListLen == 4

\* the characters of a list, in the order of their bytes
ListChars == <<" ", ",", "a", "b">>

CharRank(c) == CHOOSE i \in DOMAIN ListChars : ListChars[i] = c

\* unicode.IsSpace
IsSpace(c) == c \in {" ", "\t", "\n", "\r"}

ListInputs ==
    UNION {[1..n -> {ListChars[i] : i \in DOMAIN ListChars}] : n \in 0..MaxListLen}

RECURSIVE FieldsFrom(_, _, _)
FieldsFrom(str, i, field) ==
    LET ended == IF field = <<>> THEN <<>> ELSE <<field>>
    IN  IF i > Len(str) THEN ended
        ELSE IF IsSpace(str[i]) THEN ended \o FieldsFrom(str, i + 1, <<>>)
        ELSE FieldsFrom(str, i + 1, Append(field, str[i]))

\* strings.Fields: the maximal runs of characters that are not white space
Fields(str) == FieldsFrom(str, 1, <<>>)

\* the order of strings: byte by byte, a proper prefix first
RECURSIVE StringLess(_, _)
StringLess(x, y) ==
    IF y = <<>> THEN FALSE
    ELSE IF x = <<>> THEN TRUE
    ELSE IF x[1] # y[1] THEN CharRank(x[1]) < CharRank(y[1])
    ELSE StringLess(Tail(x), Tail(y))

RECURSIVE InsertSorted(_, _)
InsertSorted(sorted, x) ==
    IF sorted = <<>> THEN <<x>>
    ELSE IF StringLess(x, sorted[1]) THEN <<x>> \o sorted
    ELSE <<sorted[1]>> \o InsertSorted(Tail(sorted), x)

\* sort.Strings: the strings in increasing order
RECURSIVE SortStrings(_)
SortStrings(fields) ==
    IF fields = <<>> THEN <<>>
    ELSE InsertSorted(SortStrings(Tail(fields)), fields[1])

\* strings.Join
RECURSIVE Join(_, _)
Join(elems, sep) ==
    IF elems = <<>> THEN <<>>
    ELSE IF Len(elems) = 1 THEN elems[1]
    ELSE elems[1] \o sep \o Join(Tail(elems), sep)

\* a mutant of StateFunc: the fields are joined in the order they come in
StateFuncUnsorted(thing) == Join(Fields(thing), <<",">>)

\* the StateFunc of mismatching_mime_types_override_list
StateFunc(thing) ==
    LET fields == Fields(thing)
    IN  Join(SortStrings(fields), <<",">>)

\* the attribute is not configured
NoOverrideList == [config |-> <<>>, state |-> <<>>]

\* what every action on the npm repository leaves alone
NpmDone(name) ==
    /\ opName' = name
    /\ UNCHANGED <<backupVars, replVars, webhookVars, procVars, preState,
                   preRemote, faults, calls, diags, panicked>>

\* the list is configured: the state keeps what the state function makes of it
NpmConfigure ==
    /\ \E thing \in ListInputs :
        /\ thing # dNpm.config
        /\ dNpm' = [config |-> thing, state |-> StateFunc(thing)]
    /\ NpmDone("NpmConfigure")

\* the list is configured as the state holds it
NpmConfigureFromState ==
    /\ dNpm.state # dNpm.config
    /\ dNpm' = [config |-> dNpm.state, state |-> StateFunc(dNpm.state)]
    /\ NpmDone("NpmConfigureFromState")

NpmNext ==
    \/ NpmConfigure
    \/ NpmConfigureFromState

(***************************************************************************)
(* Webhook: the domains, the validation of a configuration and the         *)
(* lifecycle functions.                                                    *)
(***************************************************************************)
RepoDomains == {"artifact", "artifact_property", "docker"}

BuildDomains == {"build"}

ReleaseBundleDomains == {"release_bundle", "distribution", "artifactory_release_bundle"}

webhookTypesSupported == RepoDomains \cup BuildDomains \cup ReleaseBundleDomains

\* a mutant of domainValidationErrorMessageLookup: every domain is given the
\* message of the repository domains
domainValidationErrorMessageRepoOnly(domain) ==
    "repo_keys cannot be empty when both any_local and any_remote are false"

domainValidationErrorMessageLookup(domain) ==
    CASE domain \in RepoDomains ->
             "repo_keys cannot be empty when both any_local and any_remote are false"
      [] domain \in BuildDomains ->
             "selected_builds cannot be empty when any_build is false"
      [] domain \in ReleaseBundleDomains ->
             "registered_release_bundle_names cannot be empty when any_release_bundle is false"

\* a mutant of dockerEventTypes: an event of the artifact domain is let through
dockerEventTypesWithDeployed == {"pushed", "deleted", "promoted", "deployed"}

\* the docker webhook's allowed event types
dockerEventTypes == {"pushed", "deleted", "promoted"}

domainEventTypesSupported(domain) ==
    CASE domain = "artifact" -> {"deployed", "deleted", "moved", "copied"}
      [] domain = "artifact_property" -> {"added", "deleted"}
      [] domain = "docker" -> dockerEventTypes
      [] domain = "build" -> {"uploaded", "deleted", "promoted"}
      [] domain = "release_bundle" -> {"created", "signed", "deleted"}
      [] domain = "distribution" ->
             {"distribute_started", "distribute_completed", "distribute_aborted",
              "distribute_failed", "delete_started", "delete_completed", "delete_failed"}
      [] domain = "artifactory_release_bundle" ->
             {"received", "delete_started", "delete_completed", "delete_failed"}

\* the criteria block of a repository domain, of the build domain and of a
\* release bundle domain
RepoCriteria(anyLocal, anyRemote, repoKeys) ==
    [any_local |-> anyLocal, any_remote |-> anyRemote, repo_keys |-> repoKeys,
     include_patterns |-> <<"foo/**">>, exclude_patterns |-> <<"bar/**">>]

BuildCriteria(anyBuild, selectedBuilds) ==
    [any_build |-> anyBuild, selected_builds |-> selectedBuilds,
     include_patterns |-> <<"foo/**">>, exclude_patterns |-> <<"bar/**">>]

ReleaseBundleCriteria(anyReleaseBundle, names) ==
    [any_release_bundle |-> anyReleaseBundle,
     registered_release_bundle_names |-> names,
     include_patterns |-> <<"foo/**">>, exclude_patterns |-> <<"bar/**">>]

CriteriaOf(domain) ==
    CASE domain \in RepoDomains ->
             {RepoCriteria(l, r, ks) :
                 l \in BOOLEAN, r \in BOOLEAN, ks \in {{}, {"generic-local"}}}
      [] domain \in BuildDomains ->
             {BuildCriteria(b, bs) : b \in BOOLEAN, bs \in {{}, {"build-1"}}}
      [] domain \in ReleaseBundleDomains ->
             {ReleaseBundleCriteria(b, ns) : b \in BOOLEAN, ns \in {{}, {"bundle-1"}}}

\* the event types a configuration is given: the domain's own set, one event
\* alone, or the domain's set and one event more
ProbeEvents == {"wrong-event-type", "deployed"}

EventTypesOf(domain) ==
    {domainEventTypesSupported(domain)}
        \cup {{t} : t \in ProbeEvents}
        \cup {domainEventTypesSupported(domain) \cup {t} : t \in ProbeEvents}

WebhookConfig(key, events, criteria) ==
    [key |-> key, description |-> "test description", enabled |-> TRUE,
     event_types |-> events, criteria |-> <<criteria>>,
     url |-> "http://tempurl.org", secret |-> "fake-secret",
     custom_http_headers |-> [h \in {"header-1", "header-2"} |->
                                 IF h = "header-1" THEN "value-1" ELSE "value-2"]]

\* whether the criteria select nothing
CriteriaSelectNothing(domain, c) ==
    CASE domain \in RepoDomains ->
             ~c.any_local /\ ~c.any_remote /\ c.repo_keys = {}
      [] domain \in BuildDomains ->
             ~c.any_build /\ c.selected_builds = {}
      [] domain \in ReleaseBundleDomains ->
             ~c.any_release_bundle /\ c.registered_release_bundle_names = {}

EventTypeError(domain, t) ==
    "event_type " \o t \o " not supported for domain " \o domain

RECURSIVE EventTypeErrors(_, _)
EventTypeErrors(domain, events) ==
    IF events = {} THEN <<>>
    ELSE LET t == CHOOSE e \in events : TRUE
         IN  (IF t \in domainEventTypesSupported(domain) THEN <<>>
              ELSE <<EventTypeError(domain, t)>>)
                 \o EventTypeErrors(domain, events \ {t})

\* the validation of a planned configuration: the event types, then the
\* criteria; every failure is reported
validateWebhook(domain, attrs) ==
    EventTypeErrors(domain, attrs.event_types)
        \o (IF CriteriaSelectNothing(domain, attrs.criteria[1])
            THEN <<domainValidationErrorMessageLookup(domain)>> ELSE <<>>)

\* the JSON of a webhook: the event filter and one handler
unpackWebhook(domain, attrs) ==
    [key |-> attrs.key, description |-> attrs.description, enabled |-> attrs.enabled,
     event_filter |-> [domain |-> domain, event_types |-> attrs.event_types,
                       criteria |-> attrs.criteria[1]],
     handlers |-> <<[handler_type |-> "webhook", url |-> attrs.url,
                     secret |-> attrs.secret,
                     custom_http_headers |-> attrs.custom_http_headers]>>]

\* a mutant of packWebhook: the secret is not packed
packWebhookWithoutSecret(w) ==
    [key |-> w.key, description |-> w.description, enabled |-> w.enabled,
     event_types |-> w.event_filter.event_types,
     criteria |-> <<w.event_filter.criteria>>,
     url |-> w.handlers[1].url, secret |-> "",
     custom_http_headers |-> w.handlers[1].custom_http_headers]

packWebhook(w) ==
    [key |-> w.key, description |-> w.description, enabled |-> w.enabled,
     event_types |-> w.event_filter.event_types,
     criteria |-> <<w.event_filter.criteria>>,
     url |-> w.handlers[1].url, secret |-> w.handlers[1].secret,
     custom_http_headers |-> w.handlers[1].custom_http_headers]

webhookUrl == "event/api/v1/subscriptions/"

webhooksUrl == "event/api/v1/subscriptions"

WebhookCallOutcomes == {CallOK, CallTransportFailure}

\* the GET of a webhook: not found when the remote holds none of the key
testCheckWebhook(remote, id, o) ==
    IF Failed(o) THEN o
    ELSE IF id \notin DOMAIN remote THEN CallStatus(StatusNotFound)
    ELSE CallOK

resourceWebhookRead(d, remote, o) ==
    LET resp == testCheckWebhook(remote, d.id, o)
        get == <<Request("GET", <<webhookUrl, d.id>>, NoBody)>>
    IN  IF Failed(resp)
        THEN IF resp.status = StatusNotFound
             THEN Returned([d EXCEPT !.id = ""], remote, <<>>, get)
             ELSE Returned(d, remote, FromErr(resp.err), get)
        ELSE Returned([d EXCEPT !.attrs = packWebhook(remote[d.id])], remote, <<>>, get)

\* a configuration that fails the validation is refused before any call
resourceWebhookCreate(d, remote, o1, o2) ==
    LET invalid == validateWebhook(d.type, d.attrs)
        webhook == unpackWebhook(d.type, d.attrs)
        post == <<Request("POST", <<webhooksUrl, "">>, webhook)>>
    IN  IF invalid # <<>> THEN Returned(d, remote, invalid, <<>>)
        ELSE IF Failed(o1) THEN Returned(d, remote, FromErr(o1.err), post)
        ELSE LET read == resourceWebhookRead([d EXCEPT !.id = webhook.key],
                                             (webhook.key :> webhook) @@ remote, o2)
             IN  [read EXCEPT !.calls = post \o read.calls]

\* a mutant of resourceWebhookDelete: the DELETE is not sent
resourceWebhookDeleteNothing(d, remote, o) ==
    Returned(d, remote, <<>>, <<>>)

resourceWebhookDelete(d, remote, o) ==
    LET del == <<Request("DELETE", <<webhookUrl, d.id>>, NoBody)>>
    IN  Returned(d, IF Failed(o) THEN remote
                    ELSE [k \in DOMAIN remote \ {d.id} |-> remote[k]],
                 FromErr(o.err), del)

WebhookDone(name, start, r, os) ==
    /\ opName' = name
    /\ preState' = start
    /\ preRemote' = webhooks
    /\ webhooks' = r.remote
    /\ NoneSpare(os, r.calls)
    /\ faults' = Consumed(os, r.calls)
    /\ calls' = r.calls
    /\ diags' = r.diags
    /\ panicked' = r.panic
    /\ UNCHANGED <<backupVars, replVars, procVars, npmVars>>

WebhookCreate ==
    /\ dWebhook.id = ""
    /\ \E domain \in webhookTypesSupported, key \in WebhookKeys,
          o1, o2 \in WebhookCallOutcomes :
        \E events \in EventTypesOf(domain), criteria \in CriteriaOf(domain) :
            LET start == [id |-> "", type |-> domain,
                          attrs |-> WebhookConfig(key, events, criteria)]
            IN  \E r \in {resourceWebhookCreate(start, webhooks, o1, o2)} :
                /\ dWebhook' = r.d
                /\ WebhookDone("WebhookCreate", start, r, <<o1, o2>>)

WebhookRead ==
    /\ dWebhook.id # ""
    /\ \E o \in WebhookCallOutcomes :
        \E r \in {resourceWebhookRead(dWebhook, webhooks, o)} :
            /\ dWebhook' = r.d
            /\ WebhookDone("WebhookRead", dWebhook, r, <<o>>)

WebhookDelete ==
    /\ dWebhook.id # ""
    /\ \E o \in WebhookCallOutcomes :
        \E r \in {resourceWebhookDelete(dWebhook, webhooks, o)} :
            /\ dWebhook' = IF r.diags = <<>> THEN [r.d EXCEPT !.id = ""] ELSE r.d
            /\ WebhookDone("WebhookDelete", dWebhook, r, <<o>>)

WebhookNext ==
    \/ WebhookCreate
    \/ WebhookRead
    \/ WebhookDelete

\* any remote document, no backup resource in the state, nothing has run
InitBackup ==
    /\ sysConfig \in SysConfigs
    /\ dBackup = NoResource(ZeroBackupAttrs)
    /\ replRemote = <<>>
    /\ dSingle = NoState
    /\ dPlural = NoState
    /\ webhooks = <<>>
    /\ dWebhook = NoState
    /\ opName = "none"
    /\ preState = dBackup
    /\ preRemote = sysConfig
    /\ faults = <<>>
    /\ calls = <<>>
    /\ diags = <<>>
    /\ panicked = FALSE
    /\ deleteProc = NoProc
    /\ updateProc = NoProc
    /\ dNpm = NoOverrideList

SpecBackup == InitBackup /\ [][BackupNext]_vars

\* the remote holds the backup to delete, whose resource holds what a read
\* gave; the other function has the configuration of a backup of another key,
\* which the remote may hold already (an update) or not (a create)
InitConcurrentBackups ==
    /\ sysConfig \in SysConfigs
    /\ dBackup = NoState
    /\ replRemote = <<>>
    /\ dSingle = NoState
    /\ dPlural = NoState
    /\ webhooks = <<>>
    /\ dWebhook = NoState
    /\ opName = "none"
    /\ preState = NoState
    /\ preRemote = sysConfig
    /\ faults = <<>>
    /\ calls = <<>>
    /\ diags = <<>>
    /\ panicked = FALSE
    /\ dNpm = NoOverrideList
    /\ \E a \in DOMAIN sysConfig :
           deleteProc = [pc |-> "get",
                         d |-> [id |-> a,
                                attrs |-> PackBackup(DecodeBackup(sysConfig[a]))],
                         restoreBackups |-> <<>>,
                         diags |-> <<>>]
    /\ \E c \in BackupConfigs :
           /\ c.key # deleteProc.d.id
           /\ updateProc = [pc |-> "patch",
                            config |-> c,
                            d |-> [id |-> IF c.key \in DOMAIN sysConfig
                                          THEN c.key ELSE "",
                                   attrs |-> c],
                            diags |-> <<>>]

SpecConcurrentBackups == InitConcurrentBackups /\ [][ConcurrentBackupsNext]_vars

\* any remote documents, no replication resource in the state, nothing has run
InitSingle ==
    /\ sysConfig = <<>>
    /\ dBackup = NoState
    /\ replRemote \in ReplRemotes
    /\ dSingle = NoResource(ZeroSingleAttrs)
    /\ dPlural = NoState
    /\ webhooks = <<>>
    /\ dWebhook = NoState
    /\ opName = "none"
    /\ preState = dSingle
    /\ preRemote = replRemote
    /\ faults = <<>>
    /\ calls = <<>>
    /\ diags = <<>>
    /\ panicked = FALSE
    /\ deleteProc = NoProc
    /\ updateProc = NoProc
    /\ dNpm = NoOverrideList

SpecSingleReplication == InitSingle /\ [][SingleNext]_vars

\* any remote documents, no replication resource in the state, nothing has run
InitPlural ==
    /\ sysConfig = <<>>
    /\ dBackup = NoState
    /\ replRemote \in ReplRemotes
    /\ dSingle = NoState
    /\ dPlural = NoResource(ZeroPluralAttrs)
    /\ webhooks = <<>>
    /\ dWebhook = NoState
    /\ opName = "none"
    /\ preState = dPlural
    /\ preRemote = replRemote
    /\ faults = <<>>
    /\ calls = <<>>
    /\ diags = <<>>
    /\ panicked = FALSE
    /\ deleteProc = NoProc
    /\ updateProc = NoProc
    /\ dNpm = NoOverrideList

SpecPluralReplication == InitPlural /\ [][PluralNext]_vars

\* any remote documents, both replication resources imported (the importers
\* pass the ID through and leave the attributes to the read), nothing has run
InitReplicationRead ==
    /\ sysConfig = <<>>
    /\ dBackup = NoState
    /\ replRemote \in ReplRemotes
    /\ dSingle \in {[id |-> r, attrs |-> ZeroSingleAttrs] : r \in ReplRepos}
    /\ dPlural \in {[id |-> r, attrs |-> ZeroPluralAttrs] : r \in ReplRepos}
    /\ webhooks = <<>>
    /\ dWebhook = NoState
    /\ opName = "none"
    /\ preState = dSingle
    /\ preRemote = replRemote
    /\ faults = <<>>
    /\ calls = <<>>
    /\ diags = <<>>
    /\ panicked = FALSE
    /\ deleteProc = NoProc
    /\ updateProc = NoProc
    /\ dNpm = NoOverrideList

\* the reads of the two replication resources
ReplicationReadNext ==
    \/ SingleRead /\ UNCHANGED dPlural
    \/ PluralRead /\ UNCHANGED dSingle

SpecReplicationRead == InitReplicationRead /\ [][ReplicationReadNext]_vars

\* nothing is configured, nothing has run
InitNpm ==
    /\ sysConfig = <<>>
    /\ dBackup = NoState
    /\ replRemote = [r \in ReplRepos |-> AbsentDoc]
    /\ dSingle = NoState
    /\ dPlural = NoState
    /\ webhooks = <<>>
    /\ dWebhook = NoState
    /\ opName = "none"
    /\ preState = NoState
    /\ preRemote = <<>>
    /\ faults = <<>>
    /\ calls = <<>>
    /\ diags = <<>>
    /\ panicked = FALSE
    /\ deleteProc = NoProc
    /\ updateProc = NoProc
    /\ dNpm = NoOverrideList

SpecNpm == InitNpm /\ [][NpmNext]_vars

\* an empty remote, no webhook resource in the state, nothing has run
InitWebhook ==
    /\ sysConfig = <<>>
    /\ dBackup = NoState
    /\ replRemote = <<>>
    /\ dSingle = NoState
    /\ dPlural = NoState
    /\ webhooks = <<>>
    /\ dWebhook = [id |-> "", type |-> "artifact", attrs |-> <<>>]
    /\ opName = "none"
    /\ preState = dWebhook
    /\ preRemote = webhooks
    /\ faults = <<>>
    /\ calls = <<>>
    /\ diags = <<>>
    /\ panicked = FALSE
    /\ deleteProc = NoProc
    /\ updateProc = NoProc
    /\ dNpm = NoOverrideList

SpecWebhook == InitWebhook /\ [][WebhookNext]_vars

\* a remote without backups and replications, no resource in the state: the
\* creates of the three resources, one after another
InitCreate ==
    /\ sysConfig = <<>>
    /\ dBackup = NoResource(ZeroBackupAttrs)
    /\ replRemote = [r \in ReplRepos |-> AbsentDoc]
    /\ dSingle = NoResource(ZeroSingleAttrs)
    /\ dPlural = NoResource(ZeroPluralAttrs)
    /\ webhooks = <<>>
    /\ dWebhook = NoState
    /\ opName = "none"
    /\ preState = NoState
    /\ preRemote = <<>>
    /\ faults = <<>>
    /\ calls = <<>>
    /\ diags = <<>>
    /\ panicked = FALSE
    /\ deleteProc = NoProc
    /\ updateProc = NoProc
    /\ dNpm = NoOverrideList

\* the backup and the replications share nothing: a run records the one or
\* the others (the two replication resources share their remote)
CreateNext ==
    \/ BackupCreate /\ dSingle.id = "" /\ dPlural.id = ""
    \/ SingleCreate /\ dBackup.id = "" /\ UNCHANGED dPlural
    \/ PluralCreate /\ dBackup.id = "" /\ UNCHANGED dSingle

SpecCreate == InitCreate /\ [][CreateNext]_vars

(***************************************************************************)
(* The properties of the single replication resource.                      *)
(***************************************************************************)
\* what the GET of the last read was answered with, when it was answered
ReadDoc == DocAt(replRemote, preState.id)

ReadAnswered == Len(faults) = 1 /\ faults[1] = CallOK /\ ReadDoc.kind # "absent"

\* C1: a single replication read packs a one-element array as a push
\* replication and an object as a pull replication, and answers an array of
\* more than one element with the error diagnostic, packing nothing
C1_ReadDispatchesOnShape ==
    (opName = "SingleRead" /\ ReadAnswered) =>
        /\ (ReadDoc.kind = "array" /\ Len(ReadDoc.items) = 1) =>
               /\ diags = <<>>
               /\ ~panicked
               /\ dSingle.id = preState.id
               /\ dSingle.attrs = packPushReplicationBody(
                                      DecodeGetBody(ReadDoc.items[1]), preState.attrs)
        /\ ReadDoc.kind = "object" =>
               /\ diags = <<>>
               /\ ~panicked
               /\ dSingle.id = preState.id
               /\ dSingle.attrs = packPullReplicationBody(
                                      DecodePullBody(ReadDoc.items[1]), preState.attrs)
        /\ (ReadDoc.kind = "array" /\ Len(ReadDoc.items) > 1) =>
               /\ diags = <<MultipleReplicationsError>>
               /\ ~panicked
               /\ dSingle = preState

\* a read of a one-element array that changed the state's attributes to the
\* push packing, which differs from the pull packing of the same element
C1_Witness ==
    /\ opName = "SingleRead"
    /\ ReadAnswered
    /\ ReadDoc.kind = "array"
    /\ Len(ReadDoc.items) = 1
    /\ diags = <<>>
    /\ dSingle.attrs # preState.attrs
    /\ dSingle.attrs # packPullReplicationBody(
                           [RepoKey |-> ReadDoc.items[1].repoKey,
                            CronExp |-> ReadDoc.items[1].cronExp,
                            EnableEventReplication |->
                                ReadDoc.items[1].enableEventReplication,
                            Enabled |-> ReadDoc.items[1].enabled,
                            SyncDeletes |-> ReadDoc.items[1].syncDeletes,
                            SyncProperties |-> ReadDoc.items[1].syncProperties,
                            PathPrefix |-> ReadDoc.items[1].pathPrefix],
                           preState.attrs)

(***************************************************************************)
(* The properties of the backup resource.                                  *)
(***************************************************************************)
DeletedKey == preState.attrs.key

\* C2: after a backup delete that returned no error, the remote holds no
\* backup of the deleted key and holds every other backup it held before,
\* each field as it was
C2_DeleteRemovesKeyKeepsSiblings ==
    (opName = "BackupDelete" /\ diags = <<>> /\ DeletedKey \in DOMAIN preRemote) =>
        /\ DeletedKey \notin DOMAIN sysConfig
        /\ \A k \in DOMAIN preRemote \ {DeletedKey} :
               k \in DOMAIN sysConfig /\ sysConfig[k] = preRemote[k]

\* a delete without error of a key the remote held beside another backup
C2_Witness ==
    /\ opName = "BackupDelete"
    /\ diags = <<>>
    /\ DeletedKey \in DOMAIN preRemote
    /\ DOMAIN preRemote \ {DeletedKey} # {}
    /\ DOMAIN sysConfig = DOMAIN preRemote \ {DeletedKey}

\* C7: after a backup create or update that returned no error, every
\* attribute of the state equals the configured value
C7_BackupRoundTrip ==
    (opName \in {"BackupCreate", "BackupUpdate"} /\ diags = <<>>) =>
        /\ dBackup.attrs.key = preState.attrs.key
        /\ dBackup.attrs.enabled = preState.attrs.enabled
        /\ dBackup.attrs.cron_exp = preState.attrs.cron_exp
        /\ dBackup.attrs.retention_period_hours = preState.attrs.retention_period_hours
        /\ dBackup.attrs.excluded_repositories = preState.attrs.excluded_repositories
        /\ dBackup.attrs.create_archive = preState.attrs.create_archive
        /\ dBackup.attrs.exclude_new_repositories
               = preState.attrs.exclude_new_repositories
        /\ dBackup.attrs.send_mail_on_error = preState.attrs.send_mail_on_error

\* an update without error that changed every field the remote held for the key
C7_Witness ==
    /\ opName = "BackupUpdate"
    /\ diags = <<>>
    /\ preState.attrs = BackupConfigCustom(preState.attrs.key)
    /\ preState.attrs.key \in DOMAIN preRemote
    /\ preRemote[preState.attrs.key]
           = MarshalBackup(unpackBackup(BackupConfigDefault(preState.attrs.key)))
    /\ dBackup.attrs = preState.attrs

\* C9, as claimed: a backup read that finds no backup of the resource's key
\* in the remote clears the state and returns no error; no state holds a
\* zero-valued backup under an ID that is still set
C9_ReadOfMissingBackupClearsState ==
    /\ (opName = "BackupRead" /\ faults = <<CallOK>>
            /\ preState.attrs.key \notin DOMAIN preRemote) =>
           (diags = <<>> /\ dBackup.id = "")
    /\ ~(dBackup.id # "" /\ dBackup.attrs = ZeroBackupAttrs)

\* C10, as claimed: a function whose last remote call failed at the transport
\* returns the transport error itself as its diagnostic
C10_TransportFailureVerbatim ==
    (Len(faults) > 0 /\ faults[Len(faults)] = CallTransportFailure) =>
        diags = <<TransportError>>

(***************************************************************************)
(* The properties of the replication reads.                                *)
(***************************************************************************)
\* C8, as claimed: a replication read, single or plural, whose GET is
\* answered not found empties the resource ID and returns no error
C8_ReadNotFoundClearsState ==
    (opName \in {"SingleRead", "PluralRead"} /\ faults = <<CallOK>>
         /\ ReadDoc.kind = "absent") =>
        /\ diags = <<>>
        /\ opName = "SingleRead" => dSingle.id = ""
        /\ opName = "PluralRead" => dPlural.id = ""

(***************************************************************************)
(* The properties of the webhook resource.                                 *)
(***************************************************************************)
PlannedCriteria == preState.attrs.criteria[1]

HasDiag(msg) == \E i \in DOMAIN diags : diags[i] = msg

\* C3: creating a webhook of any supported type whose criteria select nothing
\* fails with the validation message of the type's domain, makes no remote
\* call, and leaves no webhook of the key in the remote
C3_CriteriaValidationBeforeAnyCall ==
    (opName = "WebhookCreate") =>
        /\ (preState.type \in {"artifact", "artifact_property", "docker"}
                /\ ~PlannedCriteria.any_local /\ ~PlannedCriteria.any_remote
                /\ PlannedCriteria.repo_keys = {}) =>
               /\ HasDiag("repo_keys cannot be empty when both any_local and any_remote are false")
               /\ calls = <<>>
               /\ webhooks = preRemote
               /\ preState.attrs.key \notin DOMAIN webhooks
        /\ (preState.type = "build"
                /\ ~PlannedCriteria.any_build /\ PlannedCriteria.selected_builds = {}) =>
               /\ HasDiag("selected_builds cannot be empty when any_build is false")
               /\ calls = <<>>
               /\ webhooks = preRemote
               /\ preState.attrs.key \notin DOMAIN webhooks
        /\ (preState.type \in {"release_bundle", "distribution",
                               "artifactory_release_bundle"}
                /\ ~PlannedCriteria.any_release_bundle
                /\ PlannedCriteria.registered_release_bundle_names = {}) =>
               /\ HasDiag("registered_release_bundle_names cannot be empty when any_release_bundle is false")
               /\ calls = <<>>
               /\ webhooks = preRemote
               /\ preState.attrs.key \notin DOMAIN webhooks

\* a create of a distribution webhook with supported event types whose
\* criteria select nothing: refused with the release bundle message alone
C3_Witness ==
    /\ opName = "WebhookCreate"
    /\ preState.type = "distribution"
    /\ preState.attrs.event_types = domainEventTypesSupported("distribution")
    /\ ~PlannedCriteria.any_release_bundle
    /\ PlannedCriteria.registered_release_bundle_names = {}
    /\ diags = <<"registered_release_bundle_names cannot be empty when any_release_bundle is false">>
    /\ calls = <<>>
    /\ dWebhook.id = ""

\* the event types the claim holds a domain to support
ClaimedEventTypes(domain) ==
    IF domain = "docker" THEN {"pushed", "deleted", "promoted"}
    ELSE domainEventTypesSupported(domain)

\* C4: creating a webhook with an event type outside its domain's supported
\* set (pushed, deleted, promoted for docker) fails with "event_type <type>
\* not supported for domain <domain>", whatever the criteria, and creates no
\* webhook
C4_EventTypeValidation ==
    (opName = "WebhookCreate") =>
        \A t \in preState.attrs.event_types \ ClaimedEventTypes(preState.type) :
            /\ HasDiag("event_type " \o t \o " not supported for domain "
                           \o preState.type)
            /\ dWebhook.id = ""
            /\ webhooks = preRemote
            /\ preState.attrs.key \notin DOMAIN webhooks

\* a create of a docker webhook with valid criteria and the artifact domain's
\* event "deployed": refused with the event type message alone
C4_Witness ==
    /\ opName = "WebhookCreate"
    /\ preState.type = "docker"
    /\ preState.attrs.event_types = {"pushed", "deleted", "promoted", "deployed"}
    /\ PlannedCriteria.any_local
    /\ diags = <<"event_type deployed not supported for domain docker">>
    /\ calls = <<>>
    /\ dWebhook.id = ""

\* C5: after a create of an artifact, artifact_property or docker webhook
\* that returned no error, the state holds the configured key, url, secret
\* and event types, one criteria block with the configured any_local,
\* any_remote, repo_keys, include_patterns and exclude_patterns, and both
\* configured custom headers
C5_WebhookRoundTrip ==
    (opName = "WebhookCreate" /\ diags = <<>>
         /\ preState.type \in {"artifact", "artifact_property", "docker"}) =>
        /\ dWebhook.id = preState.attrs.key
        /\ dWebhook.attrs.key = preState.attrs.key
        /\ dWebhook.attrs.url = preState.attrs.url
        /\ dWebhook.attrs.secret = preState.attrs.secret
        /\ dWebhook.attrs.event_types = preState.attrs.event_types
        /\ Len(dWebhook.attrs.criteria) = 1
        /\ dWebhook.attrs.criteria[1].any_local = PlannedCriteria.any_local
        /\ dWebhook.attrs.criteria[1].any_remote = PlannedCriteria.any_remote
        /\ dWebhook.attrs.criteria[1].repo_keys = PlannedCriteria.repo_keys
        /\ dWebhook.attrs.criteria[1].include_patterns
               = PlannedCriteria.include_patterns
        /\ dWebhook.attrs.criteria[1].exclude_patterns
               = PlannedCriteria.exclude_patterns
        /\ DOMAIN dWebhook.attrs.custom_http_headers = {"header-1", "header-2"}
        /\ dWebhook.attrs.custom_http_headers["header-1"]
               = preState.attrs.custom_http_headers["header-1"]
        /\ dWebhook.attrs.custom_http_headers["header-2"]
               = preState.attrs.custom_http_headers["header-2"]

\* a create without error of a docker webhook of any_local false, any_remote
\* true and one repository key, which the remote now holds
C5_Witness ==
    /\ opName = "WebhookCreate"
    /\ diags = <<>>
    /\ Len(calls) = 2
    /\ preState.type = "docker"
    /\ ~PlannedCriteria.any_local
    /\ PlannedCriteria.any_remote
    /\ PlannedCriteria.repo_keys = {"generic-local"}
    /\ preState.attrs.secret = "fake-secret"
    /\ preState.attrs.key \in DOMAIN webhooks
    /\ preState.attrs.key \notin DOMAIN preRemote

\* C6: after a destroy without error of a webhook the remote held, the GET
\* of the webhook's key is answered not found
C6_DestroyedWebhookNotFound ==
    (opName = "WebhookDelete" /\ diags = <<>> /\ preState.id \in DOMAIN preRemote) =>
        /\ testCheckWebhook(webhooks, preState.id, CallOK).status = 404
        /\ testCheckWebhook(webhooks, preState.id, CallOK).err # ""

\* a destroy without error of a webhook the remote held until then
C6_Witness ==
    /\ opName = "WebhookDelete"
    /\ diags = <<>>
    /\ faults = <<CallOK>>
    /\ preState.id \in DOMAIN preRemote
    /\ dWebhook.id = ""
    /\ calls = <<Request("DELETE", <<webhookUrl, preState.id>>, NoBody)>>

(***************************************************************************)
(* The properties of the backup resource's requests.                       *)
(***************************************************************************)
GetRequest == [method |-> "GET", path |-> "artifactory/api/system/configuration",
               body |-> NoBody]

PatchRequest(body) == [method |-> "PATCH",
                       path |-> "artifactory/api/system/configuration",
                       body |-> body]

Patches == {i \in DOMAIN calls : calls[i].method = "PATCH"}

\* the backups of the remote the last function started from, but `key`
SiblingsOf(key) == [k \in DOMAIN preRemote \ {key} |-> preRemote[k]]

\* C11, as claimed: a backup function applies its whole effect to the remote
\* or leaves the remote as it was; a backup delete that returns an error, at
\* whichever step, leaves the backups of the remote as they were
C11_AllOrNothing ==
    /\ (opName = "BackupDelete" /\ diags # <<>>) => sysConfig = preRemote
    /\ (opName = "BackupDelete" /\ diags = <<>>) => sysConfig = SiblingsOf(DeletedKey)
    /\ opName \in {"BackupCreate", "BackupUpdate"} =>
           \/ sysConfig = preRemote
           \/ sysConfig = (preState.attrs.key :> MarshalBackup(unpackBackup(preState.attrs)))
                              @@ preRemote
    /\ opName = "BackupRead" => sysConfig = preRemote

\* C12: a backup create or update sends one PATCH, whose body is a backups
\* map of one entry under the resource's key, and leaves every backup of
\* another key as the remote held it
C12_UpdatePatchesOwnKeyAlone ==
    opName \in {"BackupCreate", "BackupUpdate"} =>
        /\ Cardinality(Patches) = 1
        /\ calls[1].method = "PATCH"
        /\ calls[1].path = "artifactory/api/system/configuration"
        /\ ~calls[1].body.clear
        /\ DOMAIN calls[1].body.backups = {preState.attrs.key}
        /\ \A k \in DOMAIN preRemote \ {preState.attrs.key} :
               k \in DOMAIN sysConfig /\ sysConfig[k] = preRemote[k]

\* an update without error of one backup while the remote held another,
\* whose fields differ from the updated ones
C12_Witness ==
    /\ opName = "BackupUpdate"
    /\ diags = <<>>
    /\ faults = <<CallOK, CallOK>>
    /\ preState.attrs = BackupConfigCustom(preState.attrs.key)
    /\ \E k \in DOMAIN preRemote \ {preState.attrs.key} :
           /\ preRemote[k] = MarshalBackup(unpackBackup(BackupConfigDefault(k)))
           /\ sysConfig[k] = preRemote[k]
    /\ sysConfig[preState.attrs.key] # preRemote[preState.attrs.key]

\* C17: a backup delete sends the GET, then the PATCH that clears the
\* backups section, then the PATCH that restores; the restoring body holds
\* the backups the GET returned whose key is not the deleted one, and no
\* PATCH is sent unless the GET succeeded
C17_DeleteProtocolOrder ==
    opName = "BackupDelete" =>
        /\ Len(calls) \in 1..3
        /\ calls[1] = GetRequest
        /\ Len(calls) >= 2 =>
               /\ faults[1] = CallOK
               /\ calls[2] = PatchRequest([clear |-> TRUE, backups |-> <<>>])
        /\ Len(calls) = 3 =>
               /\ faults[2] = CallOK
               /\ calls[3] = PatchRequest([clear |-> FALSE,
                                           backups |-> SiblingsOf(DeletedKey)])
        /\ diags = <<>> => Len(calls) = 3

\* a delete that sent all three requests, restoring a backup of another key
C17_Witness ==
    /\ opName = "BackupDelete"
    /\ DeletedKey \in DOMAIN preRemote
    /\ Len(calls) = 3
    /\ calls[3].body.backups # <<>>
    /\ DOMAIN calls[3].body.backups = DOMAIN preRemote \ {DeletedKey}

\* C18: a backup delete whose GET fails, at the transport or with an error
\* response, returns an error diagnostic and sends no PATCH: the backups of
\* the remote are as they were
C18_DeleteAbortsOnFailedFetch ==
    (opName = "BackupDelete" /\ faults[1] # CallOK) =>
        /\ diags # <<>>
        /\ calls = <<GetRequest>>
        /\ Patches = {}
        /\ sysConfig = preRemote

\* a delete whose GET was answered with an error response while the remote
\* held the backup and another
C18_Witness ==
    /\ opName = "BackupDelete"
    /\ faults = <<CallServerError>>
    /\ DeletedKey \in DOMAIN preRemote
    /\ Cardinality(DOMAIN preRemote) > 1
    /\ diags # <<>>
    /\ dBackup.id # ""

(***************************************************************************)
(* The properties of the resources' identity and of the replication        *)
(* resources' requests.                                                    *)
(***************************************************************************)
\* the last function was a create or an update that returned no error and
\* left the resource in the state
Recorded(d) == diags = <<>> /\ ~panicked /\ d.id # ""

\* C13, as claimed: after a create or an update without error of a backup,
\* single replication or plural replication resource, the resource ID is the
\* configured key and the function wrote to the remote under that key, also
\* when a plural update's configured repo_key is not the ID it started from
C13_IdentityIsRemoteKey ==
    /\ (opName \in {"BackupCreate", "BackupUpdate"} /\ Recorded(dBackup)) =>
           /\ dBackup.id = preState.attrs.key
           /\ DOMAIN calls[1].body.backups = {preState.attrs.key}
    /\ (opName \in {"SingleCreate", "SingleUpdate"} /\ Recorded(dSingle)) =>
           /\ dSingle.id = preState.attrs.repo_key
           /\ calls[1].path[2] = preState.attrs.repo_key
    /\ (opName \in {"PluralCreate", "PluralUpdate"} /\ Recorded(dPlural)) =>
           /\ dPlural.id = preState.attrs.repo_key
           /\ calls[1].path[2] = preState.attrs.repo_key

\* the paths under artifactory/api/replications/ that take a repository key
ReplicationPaths ==
    {"artifactory/api/replications/", "artifactory/api/replications/multiple/"}

\* C14, as claimed: every request of a create, read or update of a
\* replication resource, single or plural, goes to a path under
\* artifactory/api/replications/
C14_EndpointConsistency ==
    opName \in {"SingleCreate", "SingleRead", "SingleUpdate",
                "PluralCreate", "PluralRead", "PluralUpdate"} =>
        \A i \in DOMAIN calls : calls[i].path[1] \in ReplicationPaths

\* C15, as claimed: a single replication read whose GET is answered, with an
\* array of any length, an object or another value, returns: without error,
\* or with an error diagnostic; it does not crash
C15_ReadNeverPanics ==
    opName = "SingleRead" => ~panicked

\* C19, as claimed: unpackReplicationConfig of any configuration, the one
\* without replications included, has the configured repo_key, cron_exp and
\* enable_event_replication, and one replication per configured
\* replication, in order, each with the configured repo_key
C19_UnpackIsTotal ==
    opName \in {"PluralCreate", "PluralUpdate"} =>
        LET config == unpackReplicationConfig(preState.attrs)
        IN  /\ config.RepoKey = preState.attrs.repo_key
            /\ config.CronExp = preState.attrs.cron_exp
            /\ config.EnableEventReplication = preState.attrs.enable_event_replication
            /\ Len(config.Replications) = Len(preState.attrs.replications)
            /\ \A i \in DOMAIN config.Replications :
                   /\ config.Replications[i].RepoKey = preState.attrs.repo_key
                   /\ config.Replications[i].URL = preState.attrs.replications[i].url

(***************************************************************************)
(* The properties of backup functions under way at once.                   *)
(***************************************************************************)
BothReturnedWithoutError ==
    /\ deleteProc.pc = "returned"
    /\ deleteProc.diags = <<>>
    /\ updateProc.pc = "returned"
    /\ updateProc.diags = <<>>

\* C16, as claimed: when the delete of one backup and the create or update
\* of another run at once and both return without error, the remote holds
\* the other backup with its configured fields and does not hold the deleted
\* one, however their remote calls interleave
C16_IndependentBackupsDoNotInterfere ==
    BothReturnedWithoutError =>
        /\ deleteProc.d.id \notin DOMAIN sysConfig
        /\ updateProc.config.key \in DOMAIN sysConfig
        /\ sysConfig[updateProc.config.key]
               = MarshalBackup(unpackBackup(updateProc.config))

(***************************************************************************)
(* The properties of the creates.                                          *)
(***************************************************************************)
\* the resource the last create was of
Created ==
    CASE opName = "BackupCreate" -> dBackup
      [] opName = "SingleCreate" -> dSingle
      [] opName = "PluralCreate" -> dPlural

\* C20: a create of a backup, single replication or plural replication
\* resource whose write to the remote returns an error returns an error
\* diagnostic, leaves the resource ID unset and does not send the read that
\* follows a write
C20_FailedWriteRecordsNothing ==
    opName \in {"BackupCreate", "SingleCreate", "PluralCreate"} =>
        /\ Len(calls) >= 1
        /\ calls[1].method \in {"PATCH", "PUT"}
        /\ (faults[1] # CallOK \/ Len(calls) = 1) =>
               /\ diags # <<>>
               /\ Created.id = ""
               /\ Len(calls) = 1
               /\ \A i \in DOMAIN calls : calls[i].method # "GET"
        /\ Len(calls) > 1 => faults[1] = CallOK

\* a create of a single replication whose PUT failed at the transport
C20_Witness ==
    /\ opName = "SingleCreate"
    /\ faults = <<CallTransportFailure>>
    /\ diags = <<TransportError>>
    /\ calls[1].method = "PUT"
    /\ dSingle.id = ""
    /\ replRemote = preRemote

(***************************************************************************)
(* The properties of the plural replication read.                          *)
(***************************************************************************)
\* the last function was a plural read whose GET was answered with an array
PluralReadOfArray ==
    /\ opName = "PluralRead"
    /\ faults = <<CallOK>>
    /\ ReadDoc.kind = "array"

\* what a plural read packs of an array, but for "replications" when the
\* array is empty
PluralReadPacksArray ==
    /\ diags = <<>>
    /\ dPlural.id = preState.id
    /\ dPlural.attrs.repo_key = preState.id
    /\ Len(ReadDoc.items) > 0 =>
           /\ dPlural.attrs.cron_exp = ReadDoc.items[1].cronExp
           /\ dPlural.attrs.enable_event_replication
                  = ReadDoc.items[1].enableEventReplication
           /\ Len(dPlural.attrs.replications) = Len(ReadDoc.items)
           /\ \A i \in DOMAIN ReadDoc.items :
                  /\ dPlural.attrs.replications[i].url = ReadDoc.items[i].url
                  /\ dPlural.attrs.replications[i].username
                         = ReadDoc.items[i].username
                  /\ dPlural.attrs.replications[i].enabled = ReadDoc.items[i].enabled
                  /\ dPlural.attrs.replications[i].path_prefix
                         = ReadDoc.items[i].pathPrefix
    /\ Len(ReadDoc.items) = 0 =>
           /\ dPlural.attrs.cron_exp = ""
           /\ dPlural.attrs.enable_event_replication = FALSE

\* C21, as claimed: a plural read packs repo_key from the resource ID, one
\* replication per element of the remote array in the array's order, and
\* cron_exp and enable_event_replication from the first element; of an
\* empty array it packs an empty cron_exp and a false
\* enable_event_replication and does not write "replications"
C21_PluralReadPacking ==
    PluralReadOfArray =>
        /\ PluralReadPacksArray
        /\ Len(ReadDoc.items) = 0 =>
               dPlural.attrs.replications = preState.attrs.replications

\* C21, amended: as claimed, but of an empty array "replications" is
\* written, as the empty list
C21_PluralReadPackingEmptyList ==
    PluralReadOfArray =>
        /\ PluralReadPacksArray
        /\ Len(ReadDoc.items) = 0 => dPlural.attrs.replications = <<>>

\* a plural read of an empty array by a resource whose state held a
\* replication
C21_Witness ==
    /\ PluralReadOfArray
    /\ ReadDoc.items = <<>>
    /\ preState.attrs.replications # <<>>
    /\ preState.attrs.cron_exp # ""
    /\ diags = <<>>
    /\ dPlural.attrs.replications = <<>>

(***************************************************************************)
(* Idempotence of the backup write.                                        *)
(***************************************************************************)
\* the last function was a backup create or update that went through
BackupApplied ==
    /\ opName \in {"BackupCreate", "BackupUpdate"}
    /\ faults = <<CallOK, CallOK>>

\* resourceBackupUpdate run once more, with the configuration of the last run
\* on the state and the remote the last run left
BackupAppliedAgain ==
    resourceBackupUpdate([id |-> dBackup.id, attrs |-> preState.attrs],
                         sysConfig, CallOK, CallOK)

\* C22: resourceBackupUpdate applied a second time with the same
\* configuration leaves the remote configuration, the ID and the fields of
\* the state the first application left
C22_BackupUpdateIdempotent ==
    BackupApplied =>
        /\ BackupAppliedAgain.diags = <<>>
        /\ BackupAppliedAgain.cfg = sysConfig
        /\ BackupAppliedAgain.d.id = dBackup.id
        /\ BackupAppliedAgain.d.attrs = dBackup.attrs

\* an update that changed the remote's backup of a key beside another
\* backup, with excluded repositories configured
C22_Witness ==
    /\ BackupApplied
    /\ opName = "BackupUpdate"
    /\ sysConfig # preRemote
    /\ dBackup.id \in DOMAIN preRemote
    /\ DOMAIN sysConfig # {dBackup.id}
    /\ preState.attrs.excluded_repositories # <<>>
    /\ dBackup.attrs = preState.attrs

(***************************************************************************)
(* The password a read stores.                                             *)
(***************************************************************************)
\* the last function was a single read that packed the one push replication
\* of the remote's array
SingleReadOfPush ==
    /\ opName = "SingleRead"
    /\ faults = <<CallOK>>
    /\ ReadDoc.kind = "array"
    /\ Len(ReadDoc.items) = 1
    /\ diags = <<>>

\* C23: the plural read stores, for every replication, the MD5 hash of the
\* password the remote returned and never that password itself; the single
\* read of a push replication stores the returned password unchanged
C23_PasswordOnRead ==
    /\ PluralReadOfArray =>
           \A i \in DOMAIN ReadDoc.items :
               /\ dPlural.attrs.replications[i].password
                      = getMD5Hash(ReadDoc.items[i].password)
               /\ dPlural.attrs.replications[i].password
                      # ReadDoc.items[i].password
    /\ SingleReadOfPush =>
           dSingle.attrs.password = ReadDoc.items[1].password

\* both resources have read the same replication of one repository, the
\* plural one last: the single state holds the password as returned, the
\* plural state its hash
C23_Witness ==
    /\ PluralReadOfArray
    /\ Len(ReadDoc.items) = 1
    /\ ReadDoc.items[1].password # ""
    /\ dSingle.id = dPlural.id
    /\ dSingle.attrs.password = ReadDoc.items[1].password
    /\ dPlural.attrs.replications[1].password = getMD5Hash(dSingle.attrs.password)
    /\ dPlural.attrs.replications[1].password # dSingle.attrs.password

(***************************************************************************)
(* The state function of the npm repository's override list.               *)
(***************************************************************************)
\* the number of times a field occurs
Occurrences(fields, x) == Cardinality({i \in DOMAIN fields : fields[i] = x})

\* the same fields, in any order
SameFields(f, g) ==
    /\ Len(f) = Len(g)
    /\ \A i \in DOMAIN f : Occurrences(f, f[i]) = Occurrences(g, f[i])

\* C24: the state function applied to its own result returns that result,
\* and applied to any two lists of the same whitespace-separated tokens in
\* different orders returns the same result
C24_StateFuncNormalises ==
    /\ StateFunc(dNpm.state) = dNpm.state
    /\ \A thing \in ListInputs :
           SameFields(Fields(thing), Fields(dNpm.config)) =>
               StateFunc(thing) = dNpm.state

\* a list of two tokens out of order, which the state holds sorted and
\* joined by a comma
C24_Witness ==
    /\ opName = "NpmConfigure"
    /\ dNpm.config = <<"b", " ", " ", "a">>
    /\ dNpm.state = <<"a", ",", "b">>
    /\ Fields(dNpm.config) = <<<<"b">>, <<"a">>>>
    /\ Fields(dNpm.state) = <<dNpm.state>>

====
